---- MODULE Spec2Model ----
(***************************************************************************)
(* Transcript segmentation and paragraph assembly of obsidian-yt-transcript *)
(*                                                                         *)
(* Strings are sequences of tokens.  A token is one whitespace character,  *)
(* one punctuation character, or one whole word; the regular expressions   *)
(* of the source are translated to operators over these sequences.         *)
(***************************************************************************)
EXTENDS Integers, Sequences, FiniteSets, TLC

VARIABLES
    transcript,        \* TranscriptItem[] handed to combineIntoParagraphs
    settings,          \* plugin.settings: minSentences, maxSentences and
                       \* useAI (useAITranslation with a kimiApiKey set)
    pc,                \* position of the invocation
    index,             \* forEach index (0-based, as in the source)
    currentParagraph,  \* the in-progress accumulator
    sentenceCount,     \* let sentenceCount
    paragraphs,        \* const paragraphs: ParagraphItem[]
    sentences,         \* optimizedText.split(...) of the optimizer path
    optimizerCalls,    \* number of textOptimizer.optimizeText calls issued
    optimizerFailed,   \* the optimizer call rejected (catch branch taken)
    rejected,          \* the promise of combineIntoParagraphs rejected
    flushLog,          \* history: accumulator and sentenceCount at each flush
    lines,             \* mergeShortSubtitles: the line objects (shared with acc)
    input,             \* mergeShortSubtitles: the lines as they were passed in
    acc,               \* mergeShortSubtitles: reduce accumulator (object refs)
    mIndex,            \* mergeShortSubtitles: reduce index (0-based)
    variant,           \* which source variant of an operation is running
    url,               \* fetchTranscript: the url argument
    config,            \* fetchTranscript: the config argument (useAI)
    spawned,           \* fetchTranscript: number of python processes started
    entries,           \* fetchTranscript: the subtitle records the process printed
    subtitles,         \* fetchTranscript: const subtitles, the parsed lines
    result,            \* optimizeSubtitles: the array handed from step to step;
                       \* at the end the lines of the response
    error,             \* fetchTranscript: message of the rejection
    rawText,           \* cleanText: the argument
    cleaned,           \* cleanText(text)
    cleanedTwice,      \* cleanText(cleanText(text))
    branch,            \* cleanText: the cleaner the text was handed to
    isChinese,         \* TextOptimizer.isChineseText(text)
    calls,             \* concurrent combineIntoParagraphs invocations: the
                       \* locals of each
    view,              \* TranscriptView: isDataLoaded and what is in its elements
    translations,      \* renderTranscriptionBlocks: let translations
    attempts           \* translation requests made so far and their outcomes

vars == <<transcript, settings, pc, index, currentParagraph, sentenceCount,
          paragraphs, sentences, optimizerCalls, optimizerFailed, rejected,
          flushLog, lines, input, acc, mIndex, variant, url, config, spawned,
          entries, subtitles, result, error, rawText, cleaned, cleanedTwice, branch,
          isChinese, calls, view, translations, attempts>>

assemblerVars == <<transcript, settings, pc, index, currentParagraph,
                   sentenceCount, paragraphs, sentences, optimizerCalls,
                   optimizerFailed, rejected, flushLog>>

mergerVars == <<lines, input, acc, mIndex>>

fetcherVars == <<url, config, spawned, entries, subtitles, result, error>>

cleanerVars == <<rawText, cleaned, cleanedTwice, branch, isChinese>>

\* the variables of fetchTranscript, cleanText, the concurrent invocations
\* and the view
outerVars == <<fetcherVars, cleanerVars, calls, view, translations, attempts>>

fetcherIdle ==
    /\ url = <<>>
    /\ config = [useAI |-> FALSE]
    /\ spawned = 0
    /\ entries = <<>>
    /\ subtitles = <<>>
    /\ result = <<>>
    /\ error = ""

cleanerIdle ==
    /\ rawText = <<>>
    /\ cleaned = <<>>
    /\ cleanedTwice = <<>>
    /\ branch = ""
    /\ isChinese = FALSE

callsIdle ==
    /\ calls = <<>>
    /\ view = <<>>
    /\ translations = <<>>
    /\ attempts = <<>>

outerIdle == fetcherIdle /\ cleanerIdle /\ callsIdle

----------------------------------------------------------------------------
(* Bounds of the model *)

MaxItems == 3

\* largest minSentences/maxSentences drawn besides DEFAULT_SETTINGS
MaxSentences == 2

\* longest subtitle sequence handed to mergeShortSubtitles
MaxLines == 3

\* longest transcript of the scans that fill the accumulator
MaxScan == 8

----------------------------------------------------------------------------
(* Tokens and strings *)

Space == " "

\* [.!?] and their full-width CJK forms, the class of sentenceEndRegex
SentenceEndChars == {".", "!", "?", "cjk.", "cjk!", "cjk?"}

\* whole words; "Hello" starts with a capital, the others are lowercase
\* except "And"
WordToks == {"Hello", "world", "and", "And", "the", "so"}

\* tokens whose first character is in [a-z]
LowerInitialToks == {"world", "and", "the", "so"}

\* String.prototype.toLowerCase on one word (the /i flag of the regexes)
ToLower(tok) == IF tok = "And" THEN "and" ELSE IF tok = "Hello" THEN "hello" ELSE tok

\* item.timestamp of an item that carries none (timestamp?: number)
Undefined == -1

Last(s) == s[Len(s)]

RECURSIVE TrimLeft(_)
TrimLeft(s) == IF s # <<>> /\ Head(s) = Space THEN TrimLeft(Tail(s)) ELSE s

RECURSIVE TrimRight(_)
TrimRight(s) ==
    IF s # <<>> /\ Last(s) = Space THEN TrimRight(SubSeq(s, 1, Len(s) - 1)) ELSE s

\* String.prototype.trim
Trim(s) == TrimRight(TrimLeft(s))

RECURSIVE CollapseSpaces(_)
CollapseSpaces(s) ==
    IF Len(s) < 2 THEN s
    ELSE IF s[1] = Space /\ s[2] = Space THEN CollapseSpaces(Tail(s))
    ELSE <<s[1]>> \o CollapseSpaces(Tail(s))

\* text.replace(/\s+/g, ' ').trim()
normalizeSpaces(text) == Trim(CollapseSpaces(text))

\* Array.prototype.join(' ')
RECURSIVE JoinSpace(_)
JoinSpace(texts) ==
    IF texts = <<>> THEN <<>>
    ELSE IF Len(texts) = 1 THEN texts[1]
    ELSE texts[1] \o <<Space>> \o JoinSpace(Tail(texts))

\* /[.!?+cjk]\s*$/.test(text)
sentenceEndRegex(text) ==
    LET r == TrimRight(text) IN r # <<>> /\ Last(r) \in SentenceEndChars

\* /\b(w1|w2|...)\s*$/i.test(text): the text ends, up to whitespace, with one
\* of the words, which starts at a word boundary
EndsWithWord(text, words) ==
    LET r == TrimRight(text) IN
        /\ r # <<>>
        /\ ToLower(Last(r)) \in words
        /\ (Len(r) = 1 \/ r[Len(r) - 1] \notin WordToks)

incompleteEndRegex(text) ==
    LET
        \* the word list of incompleteEndRegex in createParagraphsDirectly
        IncompleteEndWords ==
            {"and", "or", "but", "because", "if", "for", "to", "the", "a", "an", "in",
             "on", "at", "by", "with", "i'm", "i", "you're", "he's", "she's", "it's",
             "we're", "they're"}
    IN
    EndsWithWord(text, IncompleteEndWords)

\* optimizedText.split(/(?<=[.!?+cjk])\s+/): a separator is a maximal run of
\* whitespace that directly follows a sentence-end character; the empty
\* string splits into one empty piece and a trailing separator leaves a
\* trailing empty piece
RECURSIVE SkipSpaces(_, _)
SkipSpaces(s, j) == IF j <= Len(s) /\ s[j] = Space THEN SkipSpaces(s, j + 1) ELSE j

RECURSIVE SplitFrom(_, _, _, _)
SplitFrom(s, i, piece, afterEnd) ==
    IF i > Len(s) THEN <<piece>>
    ELSE IF s[i] = Space /\ afterEnd
         THEN <<piece>> \o SplitFrom(s, SkipSpaces(s, i), <<>>, FALSE)
         ELSE SplitFrom(s, i + 1, Append(piece, s[i]), s[i] \in SentenceEndChars)

SplitSentences(optimizedText) == SplitFrom(optimizedText, 1, <<>>, FALSE)

----------------------------------------------------------------------------
(* Paragraph construction *)

emptyParagraph == [texts |-> <<>>, timestamps |-> <<>>, firstTimestamp |-> 0]

\* paragraphs.push({text: [texts.join(' ')], timestamp, endTimestamp, timeLinks})
MakeParagraph(cur, joined) ==
    LET
        \* `[${formatTimestamp(ts)}](${url}&t=${Math.floor(ts/1000)})`: the label is
        \* formatTimestamp of ts, the link target carries the whole seconds
        TimeLink(ts) == [labelOf |-> ts, t |-> ts \div 1000]
    IN
    [text |-> <<joined>>,
     timestamp |-> cur.firstTimestamp,
     endTimestamp |-> IF cur.timestamps = <<>> THEN Undefined
                      ELSE Last(cur.timestamps),
     timeLinks |-> [i \in DOMAIN cur.timestamps |-> TimeLink(cur.timestamps[i])]]

\* if (timestamp) { if (timestamps.length === 0) firstTimestamp = timestamp;
\*                  timestamps.push(timestamp) }   -- 0 and undefined are falsy
RecordTimestamp(cur, ts) ==
    IF ts # Undefined /\ ts # 0
    THEN [cur EXCEPT !.timestamps = Append(@, ts),
                     !.firstTimestamp = IF cur.timestamps = <<>> THEN ts ELSE @]
    ELSE cur

----------------------------------------------------------------------------
(* createParagraphsDirectly: one forEach callback *)

\* the state of one scan: accumulator, sentence counter, output, flush history
newScan == [cur |-> emptyParagraph, count |-> 0, paragraphs |-> <<>>, log |-> <<>>]

\* flush: push the paragraph, reset the accumulator and the counter
Flush(st, cur, count) ==
    [cur |-> emptyParagraph,
     count |-> 0,
     paragraphs |-> Append(st.paragraphs, MakeParagraph(cur, JoinSpace(cur.texts))),
     log |-> Append(st.log, [texts |-> cur.texts, timestamps |-> cur.timestamps,
                             sentenceCount |-> count])]

\* const shouldEndParagraph = (sentenceCount >= MIN_SENTENCES && isCompleteSentence)
\*     || sentenceCount >= MAX_SENTENCES || index === transcript.length - 1
shouldEndParagraphDirect_Strict(count, isCompleteSentence, isLast, cfg) ==
    \/ (count > cfg.minSentences /\ isCompleteSentence)
    \/ count > cfg.maxSentences
    \/ isLast

shouldEndParagraphDirect_MaxOnly(count, isCompleteSentence, isLast, cfg) ==
    \/ count >= cfg.maxSentences
    \/ isLast

shouldEndParagraphDirect(count, isCompleteSentence, isLast, cfg) ==
    \/ (count >= cfg.minSentences /\ isCompleteSentence)
    \/ count >= cfg.maxSentences
    \/ isLast

\* a callback that flushes whenever shouldEndParagraph holds
DirectStep_NoSuppression(st, item, isLast, cfg) ==
    LET text == Trim(item.text)
        isCompleteSentence == sentenceEndRegex(text)
        isIncomplete == incompleteEndRegex(text)
        cur == RecordTimestamp([st.cur EXCEPT !.texts = Append(@, text)],
                               item.timestamp)
        count == IF isCompleteSentence /\ ~isIncomplete THEN st.count + 1
                 ELSE st.count
    IN IF shouldEndParagraphDirect(count, isCompleteSentence, isLast, cfg)
       THEN Flush(st, cur, count)
       ELSE [st EXCEPT !.cur = cur, !.count = count]

DirectStep(st, item, isLast, cfg) ==
    LET text == Trim(item.text)
        isCompleteSentence == sentenceEndRegex(text)
        isIncomplete == incompleteEndRegex(text)
        cur == RecordTimestamp([st.cur EXCEPT !.texts = Append(@, text)],
                               item.timestamp)
        count == IF isCompleteSentence /\ ~isIncomplete THEN st.count + 1
                 ELSE st.count
    IN IF shouldEndParagraphDirect(count, isCompleteSentence, isLast, cfg)
          /\ ~isIncomplete
       THEN Flush(st, cur, count)
       ELSE [st EXCEPT !.cur = cur, !.count = count]

\* the whole function: transcript.forEach(...) from a fresh accumulator
RECURSIVE DirectScan(_, _, _, _)
DirectScan(st, items, i, cfg) ==
    IF i > Len(items) THEN st
    ELSE DirectScan(DirectStep(st, items[i], i = Len(items), cfg), items, i + 1, cfg)

createParagraphsDirectly(items, cfg) == DirectScan(newScan, items, 1, cfg).paragraphs

----------------------------------------------------------------------------
(* createParagraphsFromSentences: one forEach callback *)

\* (sentenceCount >= MIN_SENTENCES && sentence.match(/[.!?+cjk]$/))
\*     || sentenceCount >= MAX_SENTENCES || index === sentences.length - 1
shouldEndParagraphFromSentences(count, endsSentence, isLast, cfg) ==
    \/ (count >= cfg.minSentences /\ endsSentence)
    \/ count >= cfg.maxSentences
    \/ isLast

SentenceStep(st, sentence, i, isLast, items, cfg) ==
    LET
        \* transcript[index]?.timestamp || 0   (i is the 1-based position)
        SentenceTimestamp(its, k) ==
            IF k <= Len(its) /\ its[k].timestamp # Undefined THEN its[k].timestamp
            ELSE 0
    IN
    LET
        \* /[.!?+cjk]$/ of createParagraphsFromSentences (no \s*)
        EndsWithSentenceEndChar(text) == text # <<>> /\ Last(text) \in SentenceEndChars
    IN
    LET cur == RecordTimestamp([st.cur EXCEPT !.texts = Append(@, sentence)],
                               SentenceTimestamp(items, i))
        count == st.count + 1
    IN IF shouldEndParagraphFromSentences(count, EndsWithSentenceEndChar(sentence),
                                          isLast, cfg)
       THEN Flush(st, cur, count)
       ELSE [st EXCEPT !.cur = cur, !.count = count]

\* the whole function: sentences.forEach(...) from a fresh accumulator
RECURSIVE SentenceScan(_, _, _, _, _)
SentenceScan(st, sents, i, items, cfg) ==
    IF i > Len(sents) THEN st
    ELSE SentenceScan(SentenceStep(st, sents[i], i, i = Len(sents), items, cfg),
                      sents, i + 1, items, cfg)

createParagraphsFromSentences(sents, items, cfg) ==
    SentenceScan(newScan, sents, 1, items, cfg).paragraphs

----------------------------------------------------------------------------
(* Inputs of the assembler *)

SeqsUpTo(S, n) == UNION {[1..k -> S] : k \in 0..n}

Timestamps == {0, 1000, 2000}

\* five one-sentence items that all end in a period
FiveSentences == [i \in 1..5 |-> [text |-> <<"Hello", ".">>, timestamp |-> (i - 1) * 1000]]

Transcripts ==
    LET
        Items ==
            LET
                \* "Hello." / " world " / "Hello and"
                DirectTexts == {<<"Hello", ".">>, <<Space, "world", Space>>, <<"Hello", Space, "and">>}
            IN
                 [text : DirectTexts, timestamp : Timestamps]
    IN
    SeqsUpTo(Items, MaxItems) \cup {FiveSentences}

DEFAULT_SETTINGS == [minSentences |-> 2, maxSentences |-> 4]

\* 1 <= minSentences <= maxSentences, as the settings tab keeps them
SettingsChoices ==
    {s \in [minSentences : 1..MaxSentences, maxSentences : 1..MaxSentences] :
        s.minSentences <= s.maxSentences} \cup {DEFAULT_SETTINGS}

\* transcript.map(item => item.text).join(' ')
FullText(items) == JoinSpace([i \in DOMAIN items |-> items[i].text])

\* what textOptimizer.optimizeText may resolve to: the text unchanged, the
\* empty string, two sentences of which the last is unpunctuated, and four
\* sentences (one separator of two spaces)
OptimizerResponses(items) ==
    {FullText(items),
     <<>>,
     <<"Hello", ".", Space, "world">>,
     <<"Hello", ".", Space, Space, "Hello", ".", Space, "Hello", "?", Space, "Hello", ".">>}

----------------------------------------------------------------------------
(* combineIntoParagraphs (async, with the optional optimizer pre-pass) *)

mergerIdle ==
    /\ lines = <<>>
    /\ input = <<>>
    /\ acc = <<>>
    /\ mIndex = 0

Init ==
    /\ transcript \in Transcripts
    /\ \E s \in SettingsChoices, ai \in BOOLEAN :
          settings = [minSentences |-> s.minSentences,
                      maxSentences |-> s.maxSentences, useAI |-> ai]
    /\ pc = "call"
    /\ index = 0
    /\ currentParagraph = emptyParagraph
    /\ sentenceCount = 0
    /\ paragraphs = <<>>
    /\ sentences = <<>>
    /\ optimizerCalls = 0
    /\ optimizerFailed = FALSE
    /\ rejected = FALSE
    /\ flushLog = <<>>
    /\ variant = "async"
    /\ mergerIdle
    /\ outerIdle

scanState ==
    [cur |-> currentParagraph, count |-> sentenceCount,
     paragraphs |-> paragraphs, log |-> flushLog]

SetScan(st) ==
    /\ currentParagraph' = st.cur
    /\ sentenceCount' = st.count
    /\ paragraphs' = st.paragraphs
    /\ flushLog' = st.log

\* if (useAITranslation && kimiApiKey) { ... await optimizeText(fullText) }
\* else return this.createParagraphsDirectly(transcript, url)
combineIntoParagraphs ==
    /\ pc = "call"
    /\ variant = "async"
    /\ IF settings.useAI
       THEN /\ optimizerCalls' = optimizerCalls + 1
            /\ pc' = "awaitOptimizer"
       ELSE /\ pc' = "createParagraphsDirectly"
            /\ UNCHANGED optimizerCalls
    /\ UNCHANGED <<transcript, settings, index, currentParagraph, sentenceCount,
                   paragraphs, sentences, optimizerFailed, rejected, flushLog,
                   variant>>
    /\ UNCHANGED mergerVars
    /\ UNCHANGED outerVars

\* optimizeText resolved: split the text and enter createParagraphsFromSentences
optimizeTextResolves ==
    /\ pc = "awaitOptimizer"
    /\ \E optimizedText \in OptimizerResponses(transcript) :
          sentences' = SplitSentences(optimizedText)
    /\ pc' = "createParagraphsFromSentences"
    /\ UNCHANGED <<transcript, settings, index, currentParagraph, sentenceCount,
                   paragraphs, optimizerCalls, optimizerFailed, rejected,
                   flushLog, variant>>
    /\ UNCHANGED mergerVars
    /\ UNCHANGED outerVars

optimizeTextRejectsPropagate ==
    /\ pc = "awaitOptimizer"
    /\ optimizerFailed' = TRUE
    /\ rejected' = TRUE
    /\ pc' = "done"
    /\ UNCHANGED <<transcript, settings, index, currentParagraph, sentenceCount,
                   paragraphs, sentences, optimizerCalls, flushLog, variant>>
    /\ UNCHANGED mergerVars
    /\ UNCHANGED outerVars

\* catch (error) { return this.createParagraphsDirectly(transcript, url) }
optimizeTextRejects ==
    /\ pc = "awaitOptimizer"
    /\ optimizerFailed' = TRUE
    /\ pc' = "createParagraphsDirectly"
    /\ UNCHANGED <<transcript, settings, index, currentParagraph, sentenceCount,
                   paragraphs, sentences, optimizerCalls, rejected, flushLog,
                   variant>>
    /\ UNCHANGED mergerVars
    /\ UNCHANGED outerVars

\* one callback of transcript.forEach in createParagraphsDirectly
createParagraphsDirectlyItem ==
    /\ pc = "createParagraphsDirectly"
    /\ index < Len(transcript)
    /\ SetScan(DirectStep(scanState, transcript[index + 1],
                          index = Len(transcript) - 1, settings))
    /\ index' = index + 1
    /\ UNCHANGED <<transcript, settings, pc, sentences, optimizerCalls,
                   optimizerFailed, rejected, variant>>
    /\ UNCHANGED mergerVars
    /\ UNCHANGED outerVars

\* return paragraphs
createParagraphsDirectlyReturn ==
    /\ pc = "createParagraphsDirectly"
    /\ index = Len(transcript)
    /\ pc' = "done"
    /\ UNCHANGED <<transcript, settings, index, currentParagraph, sentenceCount,
                   paragraphs, sentences, optimizerCalls, optimizerFailed,
                   rejected, flushLog, variant>>
    /\ UNCHANGED mergerVars
    /\ UNCHANGED outerVars

\* a callback of sentences.forEach that sends its sentence to the optimizer
createParagraphsFromSentencesItem_Optimizes ==
    /\ pc = "createParagraphsFromSentences"
    /\ index < Len(sentences)
    /\ SetScan(SentenceStep(scanState, sentences[index + 1], index + 1,
                            index = Len(sentences) - 1, transcript, settings))
    /\ index' = index + 1
    /\ optimizerCalls' = optimizerCalls + 1
    /\ UNCHANGED <<transcript, settings, pc, sentences, optimizerFailed, rejected,
                   variant>>
    /\ UNCHANGED mergerVars
    /\ UNCHANGED outerVars

\* one callback of sentences.forEach in createParagraphsFromSentences
createParagraphsFromSentencesItem ==
    /\ pc = "createParagraphsFromSentences"
    /\ index < Len(sentences)
    /\ SetScan(SentenceStep(scanState, sentences[index + 1], index + 1,
                            index = Len(sentences) - 1, transcript, settings))
    /\ index' = index + 1
    /\ UNCHANGED <<transcript, settings, pc, sentences, optimizerCalls,
                   optimizerFailed, rejected, variant>>
    /\ UNCHANGED mergerVars
    /\ UNCHANGED outerVars

\* return paragraphs
createParagraphsFromSentencesReturn ==
    /\ pc = "createParagraphsFromSentences"
    /\ index = Len(sentences)
    /\ pc' = "done"
    /\ UNCHANGED <<transcript, settings, index, currentParagraph, sentenceCount,
                   paragraphs, sentences, optimizerCalls, optimizerFailed,
                   rejected, flushLog, variant>>
    /\ UNCHANGED mergerVars
    /\ UNCHANGED outerVars

Next ==
    \/ combineIntoParagraphs
    \/ optimizeTextResolves
    \/ optimizeTextRejects
    \/ createParagraphsDirectlyItem
    \/ createParagraphsDirectlyReturn
    \/ createParagraphsFromSentencesItem
    \/ createParagraphsFromSentencesReturn

Spec == Init /\ [][Next]_vars

----------------------------------------------------------------------------
(* Properties of the assembler *)

\* createParagraphsDirectly is running or has returned
OnDirectPath ==
    \/ pc = "createParagraphsDirectly"
    \/ (pc = "done" /\ ~rejected /\ (~settings.useAI \/ optimizerFailed))

\* createParagraphsFromSentences is running or has returned
OnSentencePath ==
    \/ pc = "createParagraphsFromSentences"
    \/ (pc = "done" /\ settings.useAI /\ ~optimizerFailed)

RECURSIVE Concat(_)
Concat(seqs) == IF seqs = <<>> THEN <<>> ELSE Head(seqs) \o Concat(Tail(seqs))

ParagraphTexts == [k \in DOMAIN paragraphs |-> paragraphs[k].text[1]]

TrimmedItemTexts == [i \in DOMAIN transcript |-> Trim(transcript[i].text)]

\* the texts each emitted paragraph was built from, in order
EmittedTexts == Concat([k \in DOMAIN flushLog |-> flushLog[k].texts])

\* number of completed sentences among the texts of a paragraph
CompletedSentences(texts) ==
    Cardinality({i \in DOMAIN texts : sentenceEndRegex(texts[i])})

\* number of items in the paragraphs before paragraph k (direct path)
RECURSIVE ItemsBefore(_)
ItemsBefore(k) == IF k <= 1 THEN 0 ELSE ItemsBefore(k - 1) + Len(flushLog[k - 1].texts)

\* C1: when createParagraphsDirectly has returned for a non-empty transcript,
\* every item's trimmed text is in exactly one paragraph and the paragraph
\* texts joined in output order are the item texts in input order
C1_CoverageDirect ==
    (pc = "done" /\ OnDirectPath /\ transcript # <<>>) =>
        /\ EmittedTexts = TrimmedItemTexts
        /\ JoinSpace(ParagraphTexts) = JoinSpace(TrimmedItemTexts)

\* C2: every paragraph emitted by createParagraphsDirectly starts at the
\* timestamp of its first contributing item, ends at the timestamp of its
\* last contributing item and has one time link per contributing item
C2_ParagraphTimestamps ==
    OnDirectPath =>
        \A k \in DOMAIN paragraphs :
            LET first == ItemsBefore(k) + 1
                last == ItemsBefore(k) + Len(flushLog[k].texts)
            IN /\ paragraphs[k].timestamp = transcript[first].timestamp
               /\ paragraphs[k].endTimestamp = transcript[last].timestamp
               /\ Len(paragraphs[k].timeLinks) = Len(flushLog[k].texts)

\* C3: with 1 <= minSentences <= maxSentences no emitted paragraph holds more
\* than maxSentences completed sentences: items ending in terminal punctuation
\* on the direct path, sentences on the optimizer path
C3_SentenceBound ==
    \A k \in DOMAIN flushLog :
        /\ OnDirectPath => CompletedSentences(flushLog[k].texts) <= settings.maxSentences
        /\ OnSentencePath => Len(flushLog[k].texts) <= settings.maxSentences
        /\ flushLog[k].sentenceCount <= settings.maxSentences

C3_Witness ==
    /\ pc = "done"
    /\ OnDirectPath
    /\ settings.maxSentences >= 2
    /\ \E k \in DOMAIN flushLog :
          CompletedSentences(flushLog[k].texts) = settings.maxSentences

\* C5: when the optimizer is enabled and its call rejects, combineIntoParagraphs
\* does not reject and returns what createParagraphsDirectly returns for the
\* original items
C5_FallbackEqualsDirect ==
    (pc = "done" /\ settings.useAI /\ optimizerFailed) =>
        /\ ~rejected
        /\ paragraphs = createParagraphsDirectly(transcript, settings)

C5_Witness ==
    /\ pc = "done"
    /\ settings.useAI
    /\ optimizerFailed
    /\ Len(paragraphs) >= 2

\* C6: for an empty item sequence combineIntoParagraphs returns no paragraph
\* and does not reject, with the optimizer disabled or enabled
C6_EmptyInput ==
    (pc = "done" /\ transcript = <<>>) => (paragraphs = <<>> /\ ~rejected)

SortedTimestamps(items) ==
    \A i \in 1..(Len(items) - 1) : items[i].timestamp <= items[i + 1].timestamp

\* C7: for items with non-decreasing timestamps the start timestamps of the
\* returned paragraphs are non-decreasing, on both paths
C7_StartsNonDecreasing ==
    (pc = "done" /\ ~rejected /\ SortedTimestamps(transcript)) =>
        \A k \in 1..(Len(paragraphs) - 1) :
            paragraphs[k].timestamp <= paragraphs[k + 1].timestamp

\* five one-sentence items ending in a period were assembled with
\* minSentences = 2 and maxSentences = 4
FiveSentencesAssembled ==
    /\ pc = "done"
    /\ ~rejected
    /\ settings.minSentences = 2
    /\ settings.maxSentences = 4
    /\ transcript = FiveSentences
    /\ OnSentencePath => sentences = [i \in 1..5 |-> <<"Hello", ".">>]

SentencesPerParagraph == [k \in DOMAIN flushLog |-> CompletedSentences(flushLog[k].texts)]

\* C8 as stated: the five sentences come out as a paragraph of 4 sentences
\* followed by a paragraph of 1 sentence
C8_FourPlusOne ==
    FiveSentencesAssembled =>
        (Len(paragraphs) = 2 /\ SentencesPerParagraph = <<4, 1>>)

\* C8 (amended): with minSentences = 2 and maxSentences = 4, five one-sentence
\* items ending in a period come out as three paragraphs of 2, 2 and 1
\* sentences
C8_TwoTwoOne ==
    FiveSentencesAssembled =>
        (Len(paragraphs) = 3 /\ SentencesPerParagraph = <<2, 2, 1>>)

C8_Witness == FiveSentencesAssembled /\ OnDirectPath /\ Len(paragraphs) = 3

\* C9: during a createParagraphsDirectly scan the accumulator holds at most
\* maxSentences texts
C9_AccumulatorBound ==
    pc = "createParagraphsDirectly" =>
        Len(currentParagraph.texts) <= settings.maxSentences

----------------------------------------------------------------------------
(* combineIntoParagraphs, continuation-merge variant (synchronous) *)

continuationIncompleteEndRegex(text) ==
    LET
        \* the word list of this variant's incompleteEndRegex
        ContinuationIncompleteEndWords ==
            {"and", "or", "but", "in", "on", "at", "the", "a", "an", "to", "for", "with",
             "by", "as", "of"}
    IN
    EndsWithWord(text, ContinuationIncompleteEndWords)

\* /^(and|or|but|so|because|as|if|unless|while|when)\b/i.test(normalizedText)
StartsWithConjunction(text) ==
    LET
        \* /^(w1|w2|...)\b/i.test(text)
        StartsWithWord(t, words) ==
            /\ t # <<>>
            /\ ToLower(Head(t)) \in words
            /\ (Len(t) = 1 \/ t[2] \notin WordToks)
    IN
    StartsWithWord(text, {"and", "or", "but", "so", "because", "as", "if", "unless",
                          "while", "when"})

\* a callback that does not look at the end of the previous text
ContinuationStep_NoIncompleteMerge(st, item, isLast) ==
    LET
        \* paragraphs.push({text: [normalizeSpaces(texts.join(' '))], ...}) and reset
        ContinuationFlush(s, cur) ==
            [cur |-> emptyParagraph,
             count |-> s.count,
             paragraphs |-> Append(s.paragraphs,
                                   MakeParagraph(cur, normalizeSpaces(JoinSpace(cur.texts)))),
             log |-> Append(s.log, [texts |-> cur.texts, timestamps |-> cur.timestamps,
                                     sentenceCount |-> s.count])]
    IN
    LET
        \* /^[a-z]/.test(normalizedText)
        StartsWithLowercase(text) == text # <<>> /\ Head(text) \in LowerInitialToks
    IN
    LET normalizedText == normalizeSpaces(item.text)
        texts == st.cur.texts
        shouldCombineWithPrevious ==
            /\ Len(texts) > 0
            /\ \/ StartsWithLowercase(normalizedText)
               \/ StartsWithConjunction(normalizedText)
        newTexts ==
            IF shouldCombineWithPrevious
            THEN [texts EXCEPT ![Len(texts)] =
                     normalizeSpaces(texts[Len(texts)] \o <<Space>> \o normalizedText)]
            ELSE Append(texts, normalizedText)
        cur == RecordTimestamp([st.cur EXCEPT !.texts = newTexts], item.timestamp)
        shouldEndParagraph ==
            \/ (sentenceEndRegex(Last(newTexts)) /\ Len(newTexts) >= 2)
            \/ Len(newTexts) >= 6
            \/ isLast
        isLastSentenceIncomplete == continuationIncompleteEndRegex(Last(newTexts))
    IN IF shouldEndParagraph /\ ~isLastSentenceIncomplete /\ Len(newTexts) > 0
       THEN ContinuationFlush(st, cur)
       ELSE [st EXCEPT !.cur = cur]

\* one callback of transcript.forEach
ContinuationStep(st, item, isLast) ==
    LET
        \* paragraphs.push({text: [normalizeSpaces(texts.join(' '))], ...}) and reset
        ContinuationFlush(s, cur) ==
            [cur |-> emptyParagraph,
             count |-> s.count,
             paragraphs |-> Append(s.paragraphs,
                                   MakeParagraph(cur, normalizeSpaces(JoinSpace(cur.texts)))),
             log |-> Append(s.log, [texts |-> cur.texts, timestamps |-> cur.timestamps,
                                     sentenceCount |-> s.count])]
    IN
    LET
        \* /^[a-z]/.test(normalizedText)
        StartsWithLowercase(text) == text # <<>> /\ Head(text) \in LowerInitialToks
    IN
    LET normalizedText == normalizeSpaces(item.text)
        texts == st.cur.texts
        shouldCombineWithPrevious ==
            /\ Len(texts) > 0
            /\ \/ continuationIncompleteEndRegex(Last(texts))
               \/ StartsWithLowercase(normalizedText)
               \/ StartsWithConjunction(normalizedText)
        newTexts ==
            IF shouldCombineWithPrevious
            THEN [texts EXCEPT ![Len(texts)] =
                     normalizeSpaces(texts[Len(texts)] \o <<Space>> \o normalizedText)]
            ELSE Append(texts, normalizedText)
        cur == RecordTimestamp([st.cur EXCEPT !.texts = newTexts], item.timestamp)
        shouldEndParagraph ==
            \/ (sentenceEndRegex(Last(newTexts)) /\ Len(newTexts) >= 2)
            \/ Len(newTexts) >= 6
            \/ isLast
        isLastSentenceIncomplete == continuationIncompleteEndRegex(Last(newTexts))
    IN IF shouldEndParagraph /\ ~isLastSentenceIncomplete /\ Len(newTexts) > 0
       THEN ContinuationFlush(st, cur)
       ELSE [st EXCEPT !.cur = cur]

InitContinuation ==
    LET
        \* transcripts of "Hello" / "Hello and" / "Hello." items, the item at
        \* position i with timestamp (i - 1) * 1000
        LongScans ==
            LET texts == {<<"Hello">>, <<"Hello", Space, "and">>, <<"Hello", ".">>}
            IN UNION {{[i \in 1..n |-> [text |-> f[i], timestamp |-> (i - 1) * 1000]] :
                          f \in [1..n -> texts]} : n \in 0..MaxScan}
    IN
    LET
        ContinuationItems ==
            LET
                \* "Hello." / "world" / "Hello and" / "And  Hello." / " so"
                ContinuationTexts ==
                    {<<"Hello", ".">>, <<"world">>, <<"Hello", Space, "and">>,
                     <<"And", Space, Space, "Hello", ".">>, <<Space, "so">>}
            IN
            [text : ContinuationTexts, timestamp : Timestamps]
    IN
    /\ transcript \in SeqsUpTo(ContinuationItems, MaxItems) \cup LongScans
    /\ settings = [minSentences |-> DEFAULT_SETTINGS.minSentences,
                   maxSentences |-> DEFAULT_SETTINGS.maxSentences, useAI |-> FALSE]
    /\ pc = "forEach"
    /\ index = 0
    /\ currentParagraph = emptyParagraph
    /\ sentenceCount = 0
    /\ paragraphs = <<>>
    /\ sentences = <<>>
    /\ optimizerCalls = 0
    /\ optimizerFailed = FALSE
    /\ rejected = FALSE
    /\ flushLog = <<>>
    /\ variant = "continuation"
    /\ mergerIdle
    /\ outerIdle

continuationItem ==
    /\ pc = "forEach"
    /\ variant = "continuation"
    /\ index < Len(transcript)
    /\ SetScan(ContinuationStep(scanState, transcript[index + 1],
                                index = Len(transcript) - 1))
    /\ index' = index + 1
    /\ UNCHANGED <<transcript, settings, pc, sentences, optimizerCalls,
                   optimizerFailed, rejected, variant>>
    /\ UNCHANGED mergerVars
    /\ UNCHANGED outerVars

continuationTail_NoFlush ==
    /\ pc = "forEach"
    /\ variant = "continuation"
    /\ index = Len(transcript)
    /\ pc' = "done"
    /\ UNCHANGED <<transcript, settings, index, currentParagraph, sentenceCount,
                   paragraphs, sentences, optimizerCalls, optimizerFailed,
                   rejected, flushLog, variant>>
    /\ UNCHANGED mergerVars
    /\ UNCHANGED outerVars

\* after the loop: if (currentParagraph.texts.length > 0) paragraphs.push(...);
\* return paragraphs   -- this push does not reset currentParagraph
continuationTail ==
    /\ pc = "forEach"
    /\ variant = "continuation"
    /\ index = Len(transcript)
    /\ IF Len(currentParagraph.texts) > 0
       THEN /\ paragraphs' = Append(paragraphs,
                  MakeParagraph(currentParagraph,
                                normalizeSpaces(JoinSpace(currentParagraph.texts))))
            /\ flushLog' = Append(flushLog,
                  [texts |-> currentParagraph.texts,
                   timestamps |-> currentParagraph.timestamps,
                   sentenceCount |-> sentenceCount])
       ELSE UNCHANGED <<paragraphs, flushLog>>
    /\ pc' = "done"
    /\ UNCHANGED <<transcript, settings, index, currentParagraph, sentenceCount,
                   sentences, optimizerCalls, optimizerFailed, rejected, variant>>
    /\ UNCHANGED mergerVars
    /\ UNCHANGED outerVars

NextContinuation ==
    \/ continuationItem
    \/ continuationTail

SpecContinuation == InitContinuation /\ [][NextContinuation]_vars

\* needle occurs in hay as a contiguous run
Contains(hay, needle) ==
    \E i \in 1..(Len(hay) + 1) :
        /\ i + Len(needle) - 1 <= Len(hay)
        /\ SubSeq(hay, i, i + Len(needle) - 1) = needle

LastItemInLastParagraph ==
    /\ paragraphs # <<>>
    /\ Contains(Last(paragraphs).text[1], normalizeSpaces(Last(transcript).text))

----------------------------------------------------------------------------
(* mergeShortSubtitles *)

MIN_DURATION == 1000

\* MAX_GAP of BilibiliTranscript.mergeShortSubtitles
MAX_GAP_BILIBILI == 300

\* MAX_GAP of TranscriptFetcher.mergeShortSubtitles
MAX_GAP_FETCHER == 500

MAX_MERGE_LENGTH == 100

\* MAX_GAP of mergeShortSubtitles in deepseek-translation-service.ts
MAX_GAP_DEEPSEEK == 300

\* MAX_MERGE_LENGTH of mergeShortSubtitles in deepseek-translation-service.ts
MAX_MERGE_LENGTH_DEEPSEEK == 50

\* number of UTF-16 code units a token stands for; "Long60" is a run of
\* sixty letters and "Long40" a run of forty
TokLen(tok) ==
    CASE tok = "Hello" -> 5
      [] tok = "world" -> 5
      [] tok = "and" -> 3
      [] tok = "And" -> 3
      [] tok = "the" -> 3
      [] tok = "so" -> 2
      [] tok = "Long60" -> 60
      [] tok = "Long40" -> 40
      [] tok = "World" -> 5
      [] tok = "The" -> 3
      [] tok = "So" -> 2
      [] tok \in {"cjkBut", "cjkThen", "cjkSo", "cjkAlso"} -> 2
      [] tok = "cjkInFact" -> 3
      [] OTHER -> 1

\* String.prototype.length
RECURSIVE StrLen(_)
StrLen(text) == IF text = <<>> THEN 0 ELSE TokLen(Head(text)) + StrLen(Tail(text))

\* the two-character words of newTopicStarters, each one token
NewTopicStarters == {"cjkBut", "cjkThen", "cjkSo", "cjkAlso"}

\* BilibiliTranscript.isCompleteSentence:
\* /[.!?...]/.test(text.trim()) || /^(starter|...)/.test(text.trim())
isCompleteSentence(text) ==
    LET
        \* [.!?] and full-width forms plus the ellipsis: the class of endPunctuation
        EndPunctuationChars == SentenceEndChars \cup {"..."}
    IN
    LET t == Trim(text) IN
        \/ \E i \in DOMAIN t : t[i] \in EndPunctuationChars
        \/ (t # <<>> /\ Head(t) \in NewTopicStarters)

\* the twelve words of semanticUnits, each one token
SemanticUnits == NewTopicStarters \cup {"cjkInFact"}

\* the full-width sentence enders of /[...]$/ in the deepseek variant
CjkSentenceEndChars == {"cjk.", "cjk!", "cjk?"}

\* isCompleteSentence of deepseek-translation-service.ts:
\* /[cjk. cjk! cjk?]$/.test(text) || semanticUnits.some(unit => text.includes(unit))
isCompleteSentenceDeepseek(text) ==
    \/ (text # <<>> /\ Last(text) \in CjkSentenceEndChars)
    \/ \E i \in DOMAIN text : text[i] \in SemanticUnits

\* characters of [\u4e00-\u9fa5] that occur in the modelled texts; "cjkA"
\* and the particle "cjkMa" are one ideograph each, the words are two or three
CjkToks == {"cjkA", "cjkB", "cjkMa"} \cup SemanticUnits

assemblerIdle ==
    /\ transcript = <<>>
    /\ settings = [minSentences |-> DEFAULT_SETTINGS.minSentences,
                   maxSentences |-> DEFAULT_SETTINGS.maxSentences, useAI |-> FALSE]
    /\ index = 0
    /\ currentParagraph = emptyParagraph
    /\ sentenceCount = 0
    /\ paragraphs = <<>>
    /\ sentences = <<>>
    /\ optimizerCalls = 0
    /\ optimizerFailed = FALSE
    /\ rejected = FALSE
    /\ flushLog = <<>>

assemblerUnchanged ==
    UNCHANGED <<transcript, settings, index, currentParagraph, sentenceCount,
                paragraphs, sentences, optimizerCalls, optimizerFailed, rejected,
                flushLog>>

\* the two fragments "Hello" (0 ms, 500 ms) and "world." (400 ms, 600 ms)
HelloWorld ==
    << [text |-> <<"Hello">>, offset |-> 0, duration |-> 500],
       [text |-> <<"world", ".">>, offset |-> 400, duration |-> 600] >>

InitMerger ==
    LET
        \* "world. Hello" + "world", a CJK text with a transition word between
        \* two ideographs + an ideograph, and sixty letters + forty letters
        LongerInputs ==
            { << [text |-> <<"world", ".", Space, "Hello">>, offset |-> 0, duration |-> 500],
                 [text |-> <<"world">>, offset |-> 400, duration |-> 600] >>,
              << [text |-> <<"cjkA", "cjkBut", "cjkA">>, offset |-> 0, duration |-> 500],
                 [text |-> <<"cjkA">>, offset |-> 400, duration |-> 600] >>,
              << [text |-> <<"Long60">>, offset |-> 0, duration |-> 500],
                 [text |-> <<"Long40">>, offset |-> 400, duration |-> 600] >> }
    IN
    LET
        SubtitleLines ==
            LET
                Durations == {500, 5000}
            IN
            LET
                Offsets == {0, 400, 2000}
            IN
            LET
                \* "Hello" / "world." / a run of sixty letters / one ideograph
                SubtitleTexts == {<<"Hello">>, <<"world", ".">>, <<"Long60">>, <<"cjkA">>}
            IN
            [text : SubtitleTexts, offset : Offsets, duration : Durations]
    IN
    /\ input \in SeqsUpTo(SubtitleLines, MaxLines) \cup {HelloWorld} \cup LongerInputs
    /\ lines = input
    /\ acc = <<>>
    /\ mIndex = 0
    /\ variant \in {"bilibili", "fetcher", "deepseek"}
    /\ pc = "reduce"
    /\ assemblerIdle
    /\ outerIdle

shouldMerge(last, current, v) ==
    LET
        \* deepseek-translation-service.ts: const shouldMerge =
        \*     (current.duration < MIN_DURATION || gap < MAX_GAP) &&
        \*     mergedTextLength <= MAX_MERGE_LENGTH && !this.isCompleteSentence(last.text)
        shouldMergeDeepseek ==
            LET gap == current.offset - (last.offset + last.duration)
                mergedTextLength == StrLen(last.text \o current.text)
            IN /\ (current.duration < MIN_DURATION \/ gap < MAX_GAP_DEEPSEEK)
               /\ mergedTextLength <= MAX_MERGE_LENGTH_DEEPSEEK
               /\ ~isCompleteSentenceDeepseek(last.text)
    IN
    LET
        \* TranscriptFetcher: if ((current.duration < MIN_DURATION || gap < MAX_GAP) &&
        \*     mergedTextLength <= MAX_MERGE_LENGTH)
        shouldMergeFetcher ==
            LET gap == current.offset - (last.offset + last.duration)
                mergedTextLength == StrLen(last.text \o current.text)
            IN /\ (current.duration < MIN_DURATION \/ gap < MAX_GAP_FETCHER)
               /\ mergedTextLength <= MAX_MERGE_LENGTH
    IN
    LET
        \* BilibiliTranscript: const shouldMerge =
        \*     (current.duration < MIN_DURATION || gap < MAX_GAP) &&
        \*     mergedTextLength <= MAX_MERGE_LENGTH && !this.isCompleteSentence(last.text)
        shouldMergeBilibili ==
            LET gap == current.offset - (last.offset + last.duration)
                mergedTextLength == StrLen(last.text \o current.text)
            IN /\ (current.duration < MIN_DURATION \/ gap < MAX_GAP_BILIBILI)
               /\ mergedTextLength <= MAX_MERGE_LENGTH
               /\ ~isCompleteSentence(last.text)
    IN
    CASE v = "bilibili" -> shouldMergeBilibili
      [] v = "deepseek" -> shouldMergeDeepseek
      [] OTHER -> shouldMergeFetcher

MergeInto(last, current, v) ==
    LET
        \* deepseek-translation-service.ts: last.text = `${last.text}${current.text}`;
        \* last.duration = current.offset + current.duration - last.offset
        MergeIntoDeepseek ==
            [text |-> last.text \o current.text,
             offset |-> last.offset,
             duration |-> current.offset + current.duration - last.offset]
    IN
    LET
        \* TranscriptFetcher: last.text += ' ' + current.text;
        \* last.duration = current.offset + current.duration - last.offset
        MergeIntoFetcher ==
            [text |-> last.text \o <<Space>> \o current.text,
             offset |-> last.offset,
             duration |-> current.offset + current.duration - last.offset]
    IN
    LET
        \* BilibiliTranscript: last.text = `${last.text} ${current.text}`.trim();
        \* last.duration = current.offset + current.duration - last.offset
        MergeIntoBilibili ==
            [text |-> Trim(last.text \o <<Space>> \o current.text),
             offset |-> last.offset,
             duration |-> current.offset + current.duration - last.offset]
    IN
    CASE v = "bilibili" -> MergeIntoBilibili
      [] v = "deepseek" -> MergeIntoDeepseek
      [] OTHER -> MergeIntoFetcher

\* one callback of lines.reduce; acc holds references to the line objects, so
\* a merge writes to the object that lines also holds
mergeShortSubtitlesStep ==
    /\ pc = "reduce"
    /\ mIndex < Len(lines)
    /\ LET cur == mIndex + 1 IN
         IF acc = <<>>
         THEN /\ acc' = <<cur>>
              /\ UNCHANGED lines
         ELSE IF shouldMerge(lines[Last(acc)], lines[cur], variant)
         THEN /\ lines' = [lines EXCEPT ![Last(acc)] =
                              MergeInto(lines[Last(acc)], lines[cur], variant)]
              /\ UNCHANGED acc
         ELSE /\ acc' = Append(acc, cur)
              /\ UNCHANGED lines
    /\ mIndex' = mIndex + 1
    /\ UNCHANGED <<input, variant, pc>>
    /\ assemblerUnchanged
    /\ UNCHANGED outerVars

\* reduce returns acc
mergeShortSubtitlesReturn ==
    /\ pc = "reduce"
    /\ mIndex = Len(lines)
    /\ pc' = "done"
    /\ UNCHANGED <<lines, input, acc, mIndex, variant>>
    /\ assemblerUnchanged
    /\ UNCHANGED outerVars

NextMerger ==
    \/ mergeShortSubtitlesStep
    \/ mergeShortSubtitlesReturn

SpecMerger == InitMerger /\ [][NextMerger]_vars

\* the fragments mergeShortSubtitles returns
Merged == [k \in DOMAIN acc |-> lines[acc[k]]]

SortedOffsets(ls) == \A i \in 1..(Len(ls) - 1) : ls[i].offset <= ls[i + 1].offset

EndOf(line) == line.offset + line.duration

\* C10: for an input ordered by offset with positive durations, a merge step
\* leaves the accumulated fragment with an end time (offset + duration) that
\* is at least its end time before the merge, and with a positive duration
C10_MergeKeepsRange ==
    [][(/\ pc = "reduce"
        /\ SortedOffsets(input)
        /\ \A i \in DOMAIN input : input[i].duration > 0
        /\ acc # <<>>
        /\ mIndex' = mIndex + 1
        /\ acc' = acc)
       => /\ EndOf(lines'[Last(acc)]) >= EndOf(lines[Last(acc)])
          /\ lines'[Last(acc)].duration > 0]_vars

\* a text written in ideographs only / with no ideograph at all
IsCjkText(text) == text # <<>> /\ \A i \in DOMAIN text : text[i] \in CjkToks

IsLatinText(text) == text # <<>> /\ \A i \in DOMAIN text : text[i] \notin CjkToks

\* the step just taken merged lines[mIndex + 1] into the accumulated fragment
MergeStepTaken ==
    /\ pc = "reduce"
    /\ acc # <<>>
    /\ mIndex' = mIndex + 1
    /\ acc' = acc

\* C11: a merge joins two Latin texts with a single space and two CJK texts
\* with nothing between them, keeps the accumulated offset and sets the
\* duration to (end of the merged-in fragment - accumulated offset); the
\* fragments "Hello" (0, 500) and "world." (400, 600) come back as the single
\* fragment "Hello world." with offset 0 and duration 1000
C11_MergedText ==
    /\ [][MergeStepTaken =>
            LET last == lines[Last(acc)]
                current == lines[mIndex + 1]
                merged == lines'[Last(acc)]
            IN /\ (IsLatinText(last.text) /\ IsLatinText(current.text)) =>
                      merged.text = last.text \o <<Space>> \o current.text
               /\ (IsCjkText(last.text) /\ IsCjkText(current.text)) =>
                      merged.text = last.text \o current.text
               /\ merged.offset = last.offset
               /\ merged.duration = EndOf(current) - last.offset]_vars
    /\ []((pc = "done" /\ input = HelloWorld) =>
            Merged = << [text |-> <<"Hello", Space, "world", ".">>,
                         offset |-> 0, duration |-> 1000] >>)

----------------------------------------------------------------------------
(* cleanText *)

\* the line feed that cleanChineseText joins its segments with
LF == "LF"

\* the tokens \s matches
Whitespace == {Space, LF}

\* words written in [a-zA-Z]
LatinWords == WordToks \cup {"World", "The", "So", "Long60"}

\* c.toUpperCase() applied to the first letter of a word
Capitalize(tok) ==
    CASE tok = "world" -> "World"
      [] tok = "and" -> "And"
      [] tok = "the" -> "The"
      [] tok = "so" -> "So"
      [] OTHER -> tok

\* the number of characters of text that /[a-zA-Z]/g matches
RECURSIVE CountLatin(_)
CountLatin(text) ==
    IF text = <<>> THEN 0
    ELSE (IF Head(text) \in LatinWords THEN TokLen(Head(text)) ELSE 0)
         + CountLatin(Tail(text))

\* the number of characters of text that /[\u4e00-\u9fa5]/g matches
RECURSIVE CountCjk(_)
CountCjk(text) ==
    IF text = <<>> THEN 0
    ELSE (IF Head(text) \in CjkToks THEN TokLen(Head(text)) ELSE 0)
         + CountCjk(Tail(text))

RemoveToks(s, set) == SelectSeq(s, LAMBDA t : t \notin set)

\* .replace(/\s+/g, ' '): every maximal run of whitespace becomes one space
RECURSIVE CollapseWhitespace(_)
CollapseWhitespace(s) ==
    IF s = <<>> THEN <<>>
    ELSE IF Head(s) \in Whitespace
    THEN IF Len(s) >= 2 /\ s[2] \in Whitespace
         THEN CollapseWhitespace(<<Space>> \o Tail(Tail(s)))
         ELSE <<Space>> \o CollapseWhitespace(Tail(s))
    ELSE <<Head(s)>> \o CollapseWhitespace(Tail(s))

\* .replace(/\s+/g, '')
StripWhitespace(s) == RemoveToks(s, Whitespace)

\* index of the first close at or after position j, 0 when there is none
RECURSIVE FirstAt(_, _, _)
FirstAt(s, close, j) ==
    IF j > Len(s) THEN 0
    ELSE IF s[j] = close THEN j
    ELSE FirstAt(s, close, j + 1)

\* .replace(/\(.*?\)/g, '') and .replace(/\{.*?\}/g, ''): the leftmost opener
\* that has a closer after it is removed together with everything up to the
\* first such closer; the texts hold no line feed when this runs
RECURSIVE RemoveGroups(_, _, _)
RemoveGroups(s, open, close) ==
    IF s = <<>> THEN <<>>
    ELSE IF Head(s) = open /\ FirstAt(s, close, 2) # 0
    THEN RemoveGroups(SubSeq(s, FirstAt(s, close, 2) + 1, Len(s)), open, close)
    ELSE <<Head(s)>> \o RemoveGroups(Tail(s), open, close)

\* the first four replacements shared by the cleaners, after the whitespace
\* step: square brackets, (...) groups, {...} groups
RemoveBrackets(s) ==
    LET
        \* the characters of /[cjk[ cjk] \[ \]]/g
        SquareBrackets == {"[", "]", "cjk[", "cjk]"}
    IN
    RemoveGroups(RemoveGroups(RemoveToks(s, SquareBrackets), "(", ")"), "{", "}")

\* .replace(/[,.!?cjk]+(\s|$)/g, match => match.trim() + ' '): a run of
\* punctuation followed by a whitespace character keeps one space in its
\* place (the whitespace is a space after the first step), a run at the end
\* of the string gets a space appended
SpaceAfterPunctuationRun(s) ==
    LET
        \* the class [,.!?] and its full-width forms of BilibiliTranscript.cleanText
        CleanPunctuation == {",", ".", "!", "?", "cjk.", "cjk,", "cjk!", "cjk?"}
    IN
    IF s # <<>> /\ Last(s) \in CleanPunctuation THEN s \o <<Space>> ELSE s

\* .replace(/^[---]+\s*/, ''): leading dashes and the whitespace after them
RECURSIVE DropLeading(_, _)
DropLeading(s, set) ==
    IF s # <<>> /\ Head(s) \in set THEN DropLeading(Tail(s), set) ELSE s

RemoveLeadingDashes(s) ==
    LET
        Dashes == {"-"}
    IN
    IF s # <<>> /\ Head(s) \in Dashes
    THEN DropLeading(DropLeading(s, Dashes), Whitespace)
    ELSE s

\* BilibiliTranscript.cleanText of bilibili-transcript.ts; the zero-width,
\* control and replacement characters of its last three replacements are
\* the line feed only in this alphabet, and the first step has replaced it
cleanTextBilibili(text) ==
    RemoveLeadingDashes(
        Trim(SpaceAfterPunctuationRun(RemoveBrackets(CollapseWhitespace(text)))))

\* [.!?]
LatinEnders == {".", "!", "?"}

\* .replace(/([.!?])\s*([a-zA-Z])/g, '$1 $2'): exactly one space between a
\* sentence ender and the letter that follows it
RECURSIVE SpaceAfterEnder(_)
SpaceAfterEnder(s) ==
    IF s = <<>> THEN <<>>
    ELSE IF Head(s) \in LatinEnders
    THEN LET j == SkipSpaces(s, 2) IN
           IF j <= Len(s) /\ s[j] \in LatinWords
           THEN <<Head(s), Space, s[j]>> \o SpaceAfterEnder(SubSeq(s, j + 1, Len(s)))
           ELSE <<Head(s)>> \o SpaceAfterEnder(Tail(s))
    ELSE <<Head(s)>> \o SpaceAfterEnder(Tail(s))

\* .replace(/\s+([,.!?])/g, '$1'): no whitespace before , . ! ?
RECURSIVE NoSpaceBeforePunctuation(_)
NoSpaceBeforePunctuation(s) ==
    IF s = <<>> THEN <<>>
    ELSE IF Head(s) = Space
    THEN LET j == SkipSpaces(s, 1) IN
           IF j <= Len(s) /\ s[j] \in (LatinEnders \cup {","})
           THEN NoSpaceBeforePunctuation(SubSeq(s, j, Len(s)))
           ELSE SubSeq(s, 1, j - 1) \o NoSpaceBeforePunctuation(SubSeq(s, j, Len(s)))
    ELSE <<Head(s)>> \o NoSpaceBeforePunctuation(Tail(s))

\* .replace(/([.!?]\s+)([a-z])/g, (m, p1, p2) => p1 + p2.toUpperCase())
RECURSIVE CapitalizeAfterEnder(_)
CapitalizeAfterEnder(s) ==
    IF s = <<>> THEN <<>>
    ELSE IF Head(s) \in LatinEnders /\ Len(s) >= 2 /\ s[2] = Space
    THEN LET j == SkipSpaces(s, 2) IN
           IF j <= Len(s) /\ s[j] \in LowerInitialToks
           THEN SubSeq(s, 1, j - 1) \o <<Capitalize(s[j])>>
                \o CapitalizeAfterEnder(SubSeq(s, j + 1, Len(s)))
           ELSE <<Head(s)>> \o CapitalizeAfterEnder(Tail(s))
    ELSE <<Head(s)>> \o CapitalizeAfterEnder(Tail(s))

\* cleanEnglishText of deepseek-translation-service.ts (the apostrophe
\* replacement writes back what it matched)
cleanEnglishTextDeepseek(text) ==
    LET
        \* if (!/[.!?]$/.test(result)) result += '.'
        AddMissingPeriod(s) ==
            IF s # <<>> /\ Last(s) \in LatinEnders THEN s ELSE s \o <<".">>
    IN
    CapitalizeAfterEnder(
        AddMissingPeriod(
            Trim(NoSpaceBeforePunctuation(SpaceAfterEnder(CollapseWhitespace(text))))))

\* the maximal run of sentence enders that starts at position j ends before
\* the returned position
RECURSIVE SkipToks(_, _, _)
SkipToks(s, set, j) == IF j <= Len(s) /\ s[j] \in set THEN SkipToks(s, set, j + 1) ELSE j

\* cleanText.split(/([cjk. cjk! cjk?]+)/).map(...).filter(Boolean): every piece
\* of text with the run of enders that follows it; a last piece without
\* enders gets a full stop, an empty last piece is dropped
RECURSIVE SegmentsByEnders(_, _)
SegmentsByEnders(s, part) ==
    IF s = <<>> THEN (IF part = <<>> THEN <<>> ELSE << part \o <<"cjk.">> >>)
    ELSE IF Head(s) \in CjkSentenceEndChars
    THEN LET j == SkipToks(s, CjkSentenceEndChars, 1) IN
           << part \o SubSeq(s, 1, j - 1) >>
           \o SegmentsByEnders(SubSeq(s, j, Len(s)), <<>>)
    ELSE SegmentsByEnders(Tail(s), part \o <<Head(s)>>)

\* the loop over the comma-separated parts of a segment longer than 50
\* characters: text is the part being read, currentPart the pieces gathered
RECURSIVE SplitLongSegment(_, _, _)
SplitLongSegment(s, currentPart, text) ==
    LET
        \* the commas of segment.split(/([cjk, ,])/)
        Commas == {",", "cjk,"}
    IN
    IF s # <<>> /\ Head(s) \notin Commas
    THEN SplitLongSegment(Tail(s), currentPart, text \o <<Head(s)>>)
    ELSE LET comma == IF s = <<>> THEN <<>> ELSE <<Head(s)>>
             tooLong == StrLen(currentPart \o text) > 40
             pushed == IF tooLong /\ currentPart # <<>>
                       THEN << currentPart \o <<"cjk.">> >> ELSE <<>>
             next == IF tooLong THEN text \o comma ELSE currentPart \o text \o comma
         IN IF s = <<>>
            THEN pushed \o (IF next # <<>> THEN <<next>> ELSE <<>>)
            ELSE pushed \o SplitLongSegment(Tail(s), next, <<>>)

\* segments.reduce(...) of step 3
RECURSIVE SplitLongSegments(_)
SplitLongSegments(segs) ==
    IF segs = <<>> THEN <<>>
    ELSE (IF StrLen(Head(segs)) <= 50 THEN <<Head(segs)>>
          ELSE SplitLongSegment(Head(segs), <<>>, <<>>))
         \o SplitLongSegments(Tail(segs))

\* segment.replace(word, `cjk.${word}`): a full stop goes before the first
\* occurrence of the word
RECURSIVE StopBeforeFirst(_, _)
StopBeforeFirst(s, word) ==
    IF s = <<>> THEN <<>>
    ELSE IF Head(s) = word THEN <<"cjk.">> \o s
    ELSE <<Head(s)>> \o StopBeforeFirst(Tail(s), word)

\* step 6: segments are glued together while the sum of the lengths stays
\* below 30
RECURSIVE MergeShortSegments(_, _)
MergeShortSegments(segs, tempSegment) ==
    IF segs = <<>> THEN (IF tempSegment # <<>> THEN <<tempSegment>> ELSE <<>>)
    ELSE IF StrLen(tempSegment) + StrLen(Head(segs)) < 30
    THEN MergeShortSegments(Tail(segs), tempSegment \o Head(segs))
    ELSE (IF tempSegment # <<>> THEN <<tempSegment>> ELSE <<>>)
         \o MergeShortSegments(Tail(segs), Head(segs))

\* Array.prototype.join('\n')
RECURSIVE JoinLF(_)
JoinLF(segs) ==
    IF segs = <<>> THEN <<>>
    ELSE IF Len(segs) = 1 THEN segs[1]
    ELSE segs[1] \o <<LF>> \o JoinLF(Tail(segs))

\* cleanChineseText of deepseek-translation-service.ts
cleanChineseTextDeepseek(text) ==
    LET
        \* if (!segment.match(/[cjk. cjk! cjk?]$/)) segment += 'cjk.'
        EndWithStop(s) ==
            IF s # <<>> /\ Last(s) \in CjkSentenceEndChars THEN s ELSE s \o <<"cjk.">>
    IN
    LET
        \* for (const word of transitionWords) if (segment.includes(word)) ...; of
        \* the eight words "cjkBut", "cjkSo" and "cjkThen" occur in the modelled
        \* texts, and the replacements of different words do not affect each other
        StopBeforeTransitions(s) ==
            StopBeforeFirst(StopBeforeFirst(StopBeforeFirst(s, "cjkBut"), "cjkSo"), "cjkThen")
    IN
    LET stripped == RemoveBrackets(StripWhitespace(text))
        split == SplitLongSegments(SegmentsByEnders(stripped, <<>>))
        marked == [k \in DOMAIN split |-> EndWithStop(StopBeforeTransitions(split[k]))]
    IN JoinLF(MergeShortSegments(marked, <<>>))

\* cleanText of deepseek-translation-service.ts:
\* isEnglish = (englishMatches?.length || 0) > (chineseMatches?.length || 0)
isEnglish(text) == CountLatin(text) > CountCjk(text)

cleanTextDeepseek(text) ==
    IF isEnglish(text) THEN cleanEnglishTextDeepseek(text)
    ELSE cleanChineseTextDeepseek(text)

----------------------------------------------------------------------------
(* BilibiliTranscript.fetchTranscript and optimizeSubtitles *)

\* longest list of subtitle records the python process prints
MaxEntries == 3

\* the floor of Math.max(duration, 1000) in optimizeSubtitles
DURATION_FLOOR == 1000

\* the runs of [a-zA-Z0-9] that occur in the modelled urls
AlnumToks == {"1234567890", "170001", "av", "bv", "BV"}

\* the null of extractBvid
Null == <<>>

\* url.match(/BV[a-zA-Z0-9]+/): the first "BV" that is followed by at least
\* one alphanumeric character, with the run of such characters
RECURSIVE MatchBvid(_, _)
MatchBvid(u, i) ==
    IF i >= Len(u) THEN Null
    ELSE IF u[i] = "BV" /\ u[i + 1] \in AlnumToks
    THEN SubSeq(u, i, SkipToks(u, AlnumToks, i + 1) - 1)
    ELSE MatchBvid(u, i + 1)

\* BilibiliTranscript.extractBvid
extractBvid(u) == MatchBvid(u, 1)

\* the messages of the errors fetchTranscript raises
UnrecognizedLink == "unrecognized Bilibili video link"

\* a constructor that takes the super("") branch for every argument
BilibiliTranscriptErrorNoMessage(message) == ""

\* message of new BilibiliTranscriptError(err) for an Error with that message
BilibiliTranscriptError(message) ==
    LET
        \* the messages that contain "ERR_INVALID_URL"
        InvalidUrlMessages == {"ERR_INVALID_URL"}
    IN
    IF message \in InvalidUrlMessages THEN "invalid Bilibili URL" ELSE message

\* Math.round(t * 1000) for t given in tenths of a second
RoundMs(t) == t * 100

\* subtitle && subtitle.from !== undefined && subtitle.to !== undefined &&
\* subtitle.content
ValidEntry(entry) ==
    /\ entry.from # Undefined
    /\ entry.to # Undefined
    /\ entry.content # <<>>

\* the push without the conversion of the offset to milliseconds
LineOfEntry_Seconds(entry) ==
    [text |-> Trim(entry.content),
     offset |-> entry.from,
     duration |-> RoundMs(entry.to - entry.from)]

\* subtitles.push({text: content.trim(), offset: Math.round(from * 1000),
\*                 duration: Math.round((to - from) * 1000)})
LineOfEntry(entry) ==
    [text |-> Trim(entry.content),
     offset |-> RoundMs(entry.from),
     duration |-> RoundMs(entry.to - entry.from)]

RECURSIVE ParseEntries(_)
ParseEntries(es) ==
    IF es = <<>> THEN <<>>
    ELSE (IF ValidEntry(Head(es)) THEN <<LineOfEntry(Head(es))>> ELSE <<>>)
         \o ParseEntries(Tail(es))

\* lines.reduce(...) of mergeShortSubtitles as a fold
RECURSIVE MergeFold(_, _, _)
MergeFold(ls, merged, v) ==
    IF ls = <<>> THEN merged
    ELSE IF merged = <<>> THEN MergeFold(Tail(ls), <<Head(ls)>>, v)
    ELSE IF shouldMerge(Last(merged), Head(ls), v)
    THEN MergeFold(Tail(ls),
                   [merged EXCEPT ![Len(merged)] = MergeInto(Last(merged), Head(ls), v)],
                   v)
    ELSE MergeFold(Tail(ls), Append(merged, Head(ls)), v)

mergeShortSubtitles(ls, v) == MergeFold(ls, <<>>, v)

\* this.cleanText of the class optimizeSubtitles belongs to
cleanText(t, v) ==
    IF v = "bilibili" THEN cleanTextBilibili(t) ELSE cleanTextDeepseek(t)

\* a line goes behind the lines whose offset is not larger (the sort is
\* stable)
RECURSIVE InsertByOffset(_, _)
InsertByOffset(sorted, line) ==
    IF sorted = <<>> THEN <<line>>
    ELSE IF Head(sorted).offset <= line.offset
    THEN <<Head(sorted)>> \o InsertByOffset(Tail(sorted), line)
    ELSE <<line>> \o sorted

\* .sort((a, b) => a.offset - b.offset)
RECURSIVE SortByOffset(_)
SortByOffset(ls) ==
    IF ls = <<>> THEN <<>>
    ELSE InsertByOffset(SortByOffset(SubSeq(ls, 1, Len(ls) - 1)), Last(ls))

\* .filter((line, index, self) => index === 0 || line.text !== self[index - 1].text)
RECURSIVE DropRepeatedFrom(_, _)
DropRepeatedFrom(self, i) ==
    IF i > Len(self) THEN <<>>
    ELSE (IF i = 1 \/ self[i].text # self[i - 1].text THEN <<self[i]>> ELSE <<>>)
         \o DropRepeatedFrom(self, i + 1)

DropRepeated(self) == DropRepeatedFrom(self, 1)

Max(a, b) == IF a >= b THEN a ELSE b

\* sortedSubtitles.map without the Math.max floor
FixDurationsNoFloor(array) ==
    [i \in DOMAIN array |->
        IF i < Len(array)
        THEN [array[i] EXCEPT !.duration = array[i + 1].offset - array[i].offset]
        ELSE array[i]]

\* sortedSubtitles.map((line, index, array) => ...): the duration of a line
\* that is not the last is the distance to the next offset, with a floor
FixDurations(array) ==
    [i \in DOMAIN array |->
        IF i < Len(array)
        THEN [array[i] EXCEPT !.duration =
                 Max(array[i + 1].offset - array[i].offset, DURATION_FLOOR)]
        ELSE [array[i] EXCEPT !.duration = Max(array[i].duration, DURATION_FLOOR)]]

fetcherOthersUnchanged ==
    /\ assemblerUnchanged
    /\ UNCHANGED <<mergerVars, cleanerVars, calls, view, translations, attempts>>

InitFetcher ==
    LET
        fetcherOthersIdle == assemblerIdle /\ mergerIdle /\ cleanerIdle /\ callsIdle
    IN
    LET
        \* urls as token sequences: "BV" is the two letters B and V, the other tokens
        \* hold no "BV"
        Urls ==
            { <<"https://www.bilibili.com/video/", "BV", "1234567890">>,
              <<"https://www.invalid.com/video">>,
              <<"https://www.bilibili.com/video/", "av", "170001">>,
              <<"https://www.bilibili.com/video/", "bv", "1234567890">>,
              <<"https://www.bilibili.com/video/", "BV">>,
              <<"https://www.bilibili.com/video/", "BV", "/">> }
    IN
    /\ url \in Urls
    /\ config \in [useAI : BOOLEAN]
    /\ variant \in {"bilibili", "deepseek"}
    /\ spawned = 0
    /\ entries = <<>>
    /\ subtitles = <<>>
    /\ result = <<>>
    /\ error = ""
    /\ pc = "fetchTranscript"
    /\ fetcherOthersIdle

\* the synchronous part of fetchTranscript: the url check, getScriptPath
\* (which throws when no script file exists) and spawn; what is thrown in
\* the try block is rethrown as a BilibiliTranscriptError
fetchTranscript ==
    LET
        ScriptNotFound == "python script file not found"
    IN
    /\ pc = "fetchTranscript"
    /\ IF extractBvid(url) = Null
       THEN /\ error' = BilibiliTranscriptError(UnrecognizedLink)
            /\ pc' = "rejected"
            /\ UNCHANGED spawned
       ELSE \E scriptFound \in BOOLEAN :
              IF scriptFound
              THEN /\ spawned' = spawned + 1
                   /\ pc' = "awaitClose"
                   /\ UNCHANGED error
              ELSE /\ error' = BilibiliTranscriptError(ScriptNotFound)
                   /\ pc' = "rejected"
                   /\ UNCHANGED spawned
    /\ UNCHANGED <<url, config, variant, entries, subtitles, result>>
    /\ fetcherOthersUnchanged

\* pythonProcess.on('error')
processError ==
    LET
        StartFailed == "failed to start the python process"
    IN
    /\ pc = "awaitClose"
    /\ error' = StartFailed
    /\ pc' = "rejected"
    /\ UNCHANGED <<url, config, variant, spawned, entries, subtitles, result>>
    /\ fetcherOthersUnchanged

\* pythonProcess.on('close') with a non-zero exit code
processCloseFailure ==
    LET
        ScriptFailed == "python script failed"
    IN
    /\ pc = "awaitClose"
    /\ error' = ScriptFailed
    /\ pc' = "rejected"
    /\ UNCHANGED <<url, config, variant, spawned, entries, subtitles, result>>
    /\ fetcherOthersUnchanged

\* pythonProcess.on('close') with exit code 0: the output is parsed; without
\* useAI the lines go through optimizeSubtitles, whose steps follow
processClose ==
    LET
        EntryRecords ==
            LET
                Spans == {<<0, 5>>, <<4, 10>>, <<20, 30>>, <<20, 20>>}
            IN
            LET
                \* content / from / to of the subtitle records; from and to count tenths of
                \* a second
                EntryContents == {<<"Hello">>, <<"world", ".">>, <<Space>>}
            IN
            {[content |-> c, from |-> sp[1], to |-> sp[2]] : c \in EntryContents, sp \in Spans}
            \cup {[content |-> <<"world", ".">>, from |-> Undefined, to |-> 10],
                  [content |-> <<>>, from |-> 0, to |-> 5],
                  \* "(Hello)", a sound description in round brackets
                  [content |-> <<"(", "Hello", ")">>, from |-> 20, to |-> 30]}
    IN
    LET
        NoTitleOrSubtitles == "failed to parse subtitle data: no valid title or subtitle data found"
    IN
    /\ pc = "awaitClose"
    /\ \E es \in SeqsUpTo(EntryRecords, MaxEntries), hasTitle \in BOOLEAN :
         /\ entries' = es
         /\ subtitles' = ParseEntries(es)
         /\ IF ~hasTitle \/ ParseEntries(es) = <<>>
            THEN /\ error' = NoTitleOrSubtitles
                 /\ pc' = "rejected"
                 /\ UNCHANGED result
            ELSE /\ result' = ParseEntries(es)
                 /\ pc' = IF config.useAI THEN "resolved" ELSE "optimizeSubtitles"
                 /\ UNCHANGED error
    /\ UNCHANGED <<url, config, variant, spawned>>
    /\ fetcherOthersUnchanged

\* step 1 of optimizeSubtitles: subtitles.filter(...)
optimizeSubtitlesFilter ==
    LET
        \* line.text && line.text.trim() !== '' && line.duration > 0 && line.offset >= 0
        ValidSubtitle(line) ==
            /\ line.text # <<>>
            /\ Trim(line.text) # <<>>
            /\ line.duration > 0
            /\ line.offset >= 0
    IN
    /\ pc = "optimizeSubtitles"
    /\ result' = SelectSeq(result, ValidSubtitle)
    /\ pc' = "mergeShortSubtitles"
    /\ UNCHANGED <<url, config, variant, spawned, entries, subtitles, error>>
    /\ fetcherOthersUnchanged

\* step 2: this.mergeShortSubtitles(validSubtitles)
optimizeSubtitlesMerge ==
    /\ pc = "mergeShortSubtitles"
    /\ result' = mergeShortSubtitles(result, variant)
    /\ pc' = "cleanText"
    /\ UNCHANGED <<url, config, variant, spawned, entries, subtitles, error>>
    /\ fetcherOthersUnchanged

\* step 3: mergedSubtitles.map(line => ({...line, text: this.cleanText(line.text)}))
optimizeSubtitlesClean ==
    /\ pc = "cleanText"
    /\ result' = [i \in DOMAIN result |->
                     [result[i] EXCEPT !.text = cleanText(result[i].text, variant)]]
    /\ pc' = "sort"
    /\ UNCHANGED <<url, config, variant, spawned, entries, subtitles, error>>
    /\ fetcherOthersUnchanged

\* step 4 without the sort
optimizeSubtitlesSort_NoSort ==
    /\ pc = "sort"
    /\ result' = DropRepeated(result)
    /\ pc' = "durations"
    /\ UNCHANGED <<url, config, variant, spawned, entries, subtitles, error>>
    /\ fetcherOthersUnchanged

\* step 4: cleanedSubtitles.sort(...).filter(...)
optimizeSubtitlesSort ==
    /\ pc = "sort"
    /\ result' = DropRepeated(SortByOffset(result))
    /\ pc' = "durations"
    /\ UNCHANGED <<url, config, variant, spawned, entries, subtitles, error>>
    /\ fetcherOthersUnchanged

\* step 5: sortedSubtitles.map(...), and resolve({title, lines})
optimizeSubtitlesDurations ==
    /\ pc = "durations"
    /\ result' = FixDurations(result)
    /\ pc' = "resolved"
    /\ UNCHANGED <<url, config, variant, spawned, entries, subtitles, error>>
    /\ fetcherOthersUnchanged

NextFetcher ==
    \/ fetchTranscript
    \/ processError
    \/ processCloseFailure
    \/ processClose
    \/ optimizeSubtitlesFilter
    \/ optimizeSubtitlesMerge
    \/ optimizeSubtitlesClean
    \/ optimizeSubtitlesSort
    \/ optimizeSubtitlesDurations

SpecFetcher == InitFetcher /\ [][NextFetcher]_vars

NoRepeatedText(ls) == \A i \in 1..(Len(ls) - 1) : ls[i].text # ls[i + 1].text

\* C12: the lines optimizeSubtitles returns are ordered by offset
\* (non-decreasing) and no two neighbours have the same text, whatever the
\* order and the repetitions of the input
C12_SortedNoRepeats ==
    (pc = "resolved" /\ ~config.useAI) =>
        /\ SortedOffsets(result)
        /\ NoRepeatedText(result)

\* an input that is out of order and holds the same text twice came back
\* ordered, with fewer lines than it was given
C12_Witness ==
    /\ pc = "resolved"
    /\ ~config.useAI
    /\ ~SortedOffsets(subtitles)
    /\ \E i, j \in DOMAIN subtitles : i # j /\ subtitles[i].text = subtitles[j].text
    /\ Len(result) >= 2
    /\ Len(result) < Len(subtitles)

\* C13: the last step of optimizeSubtitles gives every line but the last the
\* duration max(offset of the next line - own offset, 1000) and the last
\* line max(its duration after merging, 1000); every duration it returns is
\* at least 1000 ms
C13_DurationFloor ==
    [][(pc = "durations" /\ pc' = "resolved") =>
          /\ Len(result') = Len(result)
          /\ \A i \in DOMAIN result :
               /\ result'[i].offset = result[i].offset
               /\ result'[i].text = result[i].text
               /\ result'[i].duration >= 1000
               /\ i < Len(result) =>
                     result'[i].duration =
                        Max(result[i + 1].offset - result[i].offset, 1000)
               /\ i = Len(result) =>
                     result'[i].duration = Max(result[i].duration, 1000)]_vars

\* two lines at the same offset were returned, the first one raised from a
\* distance of 0 ms to the floor
C13_Witness ==
    /\ pc = "resolved"
    /\ ~config.useAI
    /\ Len(result) >= 2
    /\ result[1].offset = result[2].offset
    /\ result[1].duration = 1000

\* the url holds "BV" followed by at least one alphanumeric character
HasBvIdentifier(u) ==
    \E i \in 1..(Len(u) - 1) : u[i] = "BV" /\ u[i + 1] \in AlnumToks

\* C18: for a url without a BV identifier fetchTranscript rejects with the
\* message "unrecognized Bilibili video link" and starts no process
C18_InvalidUrlRejected ==
    (pc # "fetchTranscript" /\ ~HasBvIdentifier(url)) =>
        /\ pc = "rejected"
        /\ error = UnrecognizedLink
        /\ spawned = 0

\* the url of the test, https://www.invalid.com/video, was rejected
C18_Witness ==
    /\ pc = "rejected"
    /\ url = <<"https://www.invalid.com/video">>
    /\ error = UnrecognizedLink

\* the records that become a line and are not filtered out again: content
\* that is not blank, from and to present, to after from
UsableEntry(entry) ==
    /\ ValidEntry(entry)
    /\ Trim(entry.content) # <<>>
    /\ entry.to > entry.from
    /\ entry.from >= 0

\* one line per usable record: text = content, offset = from x 1000 ms,
\* duration = (to - from) x 1000 ms
RECURSIVE LinePerEntry(_)
LinePerEntry(es) ==
    IF es = <<>> THEN <<>>
    ELSE (IF UsableEntry(Head(es))
          THEN << [text |-> Head(es).content,
                   offset |-> Head(es).from * 100,
                   duration |-> (Head(es).to - Head(es).from) * 100] >>
          ELSE <<>>)
         \o LinePerEntry(Tail(es))

----------------------------------------------------------------------------
(* TranscriptFetcher.cleanText, TextOptimizer.isChineseText and the *)
(* repeated application of cleanText                                *)

\* longest text handed to cleanText, in tokens
MaxTextLen == 3

RECURSIVE SkipUntil(_, _, _)
SkipUntil(s, set, j) ==
    IF j <= Len(s) /\ s[j] \notin set THEN SkipUntil(s, set, j + 1) ELSE j

\* result.split(/([.!?]+)/).filter(Boolean): the maximal runs of sentence
\* enders and the pieces of text between them; empty pieces are dropped
RECURSIVE SplitAtEnders(_)
SplitAtEnders(s) ==
    IF s = <<>> THEN <<>>
    ELSE LET j == IF Head(s) \in LatinEnders
                  THEN SkipToks(s, LatinEnders, 1)
                  ELSE SkipUntil(s, LatinEnders, 1)
         IN <<SubSeq(s, 1, j - 1)>> \o SplitAtEnders(SubSeq(s, j, Len(s)))

\* .replace(/^[a-z]/, c => c.toUpperCase())
CapitalizeFirst(s) ==
    IF s # <<>> /\ Head(s) \in LowerInitialToks
    THEN <<Capitalize(Head(s))>> \o Tail(s)
    ELSE s

\* the word at position k is one of the conjunctions and stands between word
\* boundaries
ConjunctionAt(s, k) ==
    LET
        \* the words of /\b(and|but|or|because|so|then)\b/i
        Conjunctions == {"and", "but", "or", "because", "so", "then"}
    IN
    LET
        \* String.prototype.toLowerCase on one word (the /i flag)
        LowerWord(tok) ==
            CASE tok = "And" -> "and"
              [] tok = "So" -> "so"
              [] tok = "The" -> "the"
              [] tok = "World" -> "world"
              [] tok = "Hello" -> "hello"
              [] OTHER -> tok
    IN
    /\ LowerWord(s[k]) \in Conjunctions
    /\ (k = 1 \/ s[k - 1] \notin LatinWords)
    /\ (k = Len(s) \/ s[k + 1] \notin LatinWords)

\* sentence.split(/\b(and|but|or|because|so|then)\b/i): text, conjunction,
\* text, ..., text
RECURSIVE SplitAtConjunctions(_, _, _)
SplitAtConjunctions(s, k, part) ==
    IF k > Len(s) THEN <<part>>
    ELSE IF ConjunctionAt(s, k)
    THEN <<part, <<s[k]>>>> \o SplitAtConjunctions(s, k + 1, <<>>)
    ELSE SplitAtConjunctions(s, k + 1, part \o <<s[k]>>)

\* for (let j = 0; j < parts.length; j += 2): a part that is not blank is
\* pushed with ", conjunction" behind it
RECURSIVE ConjunctionParts(_, _)
ConjunctionParts(parts, j) ==
    IF j > Len(parts) THEN <<>>
    ELSE LET part == Trim(parts[j])
             conjunction == IF j + 1 <= Len(parts) THEN parts[j + 1] ELSE <<>>
         IN (IF part # <<>>
             THEN << CapitalizeFirst(part)
                     \o (IF conjunction # <<>> THEN <<",", Space>> \o conjunction
                         ELSE <<>>) >>
             ELSE <<>>)
            \o ConjunctionParts(parts, j + 2)

\* for (let i = 0; i < sentences.length; i += 2): the strings pushed onto
\* cleanedSentences
RECURSIVE EnglishSentences(_, _)
EnglishSentences(pieces, i) ==
    IF i > Len(pieces) THEN <<>>
    ELSE LET punctuation == IF i + 1 <= Len(pieces) THEN pieces[i + 1] ELSE <<".">>
             sentence == CapitalizeFirst(Trim(pieces[i]))
             parts == SplitAtConjunctions(sentence, 1, <<>>)
         IN (IF StrLen(sentence) > 50 /\ Len(parts) > 1
             THEN ConjunctionParts(parts, 1)
             ELSE << sentence \o punctuation \o <<Space>> >>)
            \o EnglishSentences(pieces, i + 2)

\* TranscriptFetcher.cleanEnglishText
cleanEnglishTextFetcher(t) ==
    LET base == Trim(RemoveBrackets(CollapseWhitespace(t)))
    IN Trim(Concat(EnglishSentences(SplitAtEnders(base), 1)))

\* the loop over the characters of cleanText; a token is read as a whole,
\* which is what the loop does as long as the text is shorter than 30
\* characters
RECURSIVE ChineseSegments(_, _, _, _)
ChineseSegments(c, i, currentSegment, currentLength) ==
    LET
        \* if (!/[cjk. cjk! cjk? cjk,]$/.test(currentSegment)) currentSegment += 'cjk.'
        WithStop(seg) ==
            IF Last(seg) \in (CjkSentenceEndChars \cup {"cjk,"}) THEN seg
            ELSE seg \o <<"cjk.">>
    IN
    LET
        \* the particles of /(cjkMa|...)$/ that occur in the modelled texts
        Particles == {"cjkMa"}
    IN
    LET
        \* the words of /^(cjkBut|cjkSo|...)/ that occur in the modelled texts
        TransitionStarters == {"cjkBut", "cjkSo", "cjkThen", "cjkAlso"}
    IN
    IF i > Len(c)
    THEN (IF currentSegment # <<>> THEN <<WithStop(currentSegment)>> ELSE <<>>)
    ELSE LET seg == currentSegment \o <<c[i]>>
             len == currentLength + TokLen(c[i])
         IN IF \/ c[i] \in CjkSentenceEndChars
               \/ len >= 30
               \/ (i < Len(c) /\ c[i + 1] \in TransitionStarters)
               \/ c[i] \in Particles
            THEN <<WithStop(seg)>> \o ChineseSegments(c, i + 1, <<>>, 0)
            ELSE IF c[i] = "cjk," /\ len > 15
            THEN <<seg>> \o ChineseSegments(c, i + 1, <<>>, 0)
            ELSE ChineseSegments(c, i + 1, seg, len)

\* TranscriptFetcher.cleanChineseText
cleanChineseTextFetcher(t) ==
    JoinLF(ChineseSegments(RemoveBrackets(StripWhitespace(t)), 1, <<>>, 0))

\* TranscriptFetcher.cleanText
cleanTextFetcher(t) ==
    IF isEnglish(t) THEN cleanEnglishTextFetcher(t) ELSE cleanChineseTextFetcher(t)

\* cleanText of the class named by v
cleanTextOf(t, v) ==
    IF v = "deepseek" THEN cleanTextDeepseek(t) ELSE cleanTextFetcher(t)

\* TextOptimizer.isChineseText
isChineseText(t) ==
    LET
        \* chineseChars.length / text.length > 0.1; 0 / 0 is NaN and NaN > 0.1 is
        \* false
        RatioAboveTenth(n, d) == IF d = 0 THEN FALSE ELSE 10 * n > d
    IN
                    RatioAboveTenth(CountCjk(t), StrLen(t))

cleanerOthersUnchanged ==
    /\ assemblerUnchanged
    /\ UNCHANGED <<mergerVars, fetcherVars, calls, view, translations, attempts>>

InitCleaner ==
    LET
        cleanerOthersIdle == assemblerIdle /\ mergerIdle /\ fetcherIdle /\ callsIdle
    IN
    LET
        \* texts longer than 50 characters
        LongTexts ==
            { <<"Long60", Space, "and", Space, "Hello">>,
              <<"Long60", Space, "Hello", ".">> }
    IN
    LET
        \* letters, ideographs, whitespace, sentence punctuation, commas, brackets,
        \* a transition word and a sentence-final particle
        CleanerToks ==
            {"Hello", "world", "and", Space, ".", ",", "cjkA", "cjk.", "cjk,", "cjkBut",
             "cjkMa", "[", "(", ")"}
    IN
    /\ rawText \in SeqsUpTo(CleanerToks, MaxTextLen) \cup LongTexts
    /\ variant \in {"deepseek", "fetcher"}
    /\ cleaned = <<>>
    /\ cleanedTwice = <<>>
    /\ branch = ""
    /\ isChinese = FALSE
    /\ pc = "isChineseText"
    /\ cleanerOthersIdle

\* TextOptimizer.isChineseText(text)
isChineseTextCall ==
    /\ pc = "isChineseText"
    /\ isChinese' = isChineseText(rawText)
    /\ pc' = "cleanText"
    /\ UNCHANGED <<rawText, variant, cleaned, cleanedTwice, branch>>
    /\ cleanerOthersUnchanged

\* cleanText(text)
cleanTextCall ==
    /\ pc = "cleanText"
    /\ branch' = IF isEnglish(rawText) THEN "english" ELSE "chinese"
    /\ cleaned' = cleanTextOf(rawText, variant)
    /\ pc' = "cleanTextAgain"
    /\ UNCHANGED <<rawText, variant, cleanedTwice, isChinese>>
    /\ cleanerOthersUnchanged

\* cleanText applied to its own result
cleanTextAgain ==
    /\ pc = "cleanTextAgain"
    /\ cleanedTwice' = cleanTextOf(cleaned, variant)
    /\ pc' = "done"
    /\ UNCHANGED <<rawText, variant, cleaned, branch, isChinese>>
    /\ cleanerOthersUnchanged

NextCleaner ==
    \/ isChineseTextCall
    \/ cleanTextCall
    \/ cleanTextAgain

SpecCleaner == InitCleaner /\ [][NextCleaner]_vars

\* C14: cleaning is idempotent: cleanText(cleanText(x)) = cleanText(x) for
\* every text x, on the English and on the Chinese branch
C14_CleanTextIdempotent ==
    pc = "done" => cleanedTwice = cleaned

\* C15: a text without ideographs, the empty string included, is classified
\* as not Chinese, and the empty string is handed to the cleaner for
\* non-CJK text
C15_EmptyIsNonCjk ==
    /\ (pc = "done" /\ CountCjk(rawText) = 0) => ~isChinese
    /\ (pc = "done" /\ rawText = <<>>) => branch = "english"

----------------------------------------------------------------------------
(* combineIntoParagraphs: number of optimizer calls *)

\* C16: one invocation of combineIntoParagraphs issues at most one
\* optimizeText call, also when it builds several paragraphs from several
\* sentences, and none when the optimizer is disabled
C16_AtMostOneOptimizerCall ==
    variant = "async" =>
        /\ optimizerCalls <= 1
        /\ ~settings.useAI => optimizerCalls = 0

\* the optimizer was called once and its text was split into four sentences
\* that were assembled into at least two paragraphs
C16_Witness ==
    /\ variant = "async"
    /\ pc = "done"
    /\ optimizerCalls = 1
    /\ Len(sentences) >= 4
    /\ Len(paragraphs) >= 2

----------------------------------------------------------------------------
(* two combineIntoParagraphs invocations in flight *)

\* the invocations
Invocations == {1, 2}

\* the catch branch was taken
Rejected == <<"rejected">>

\* no optimizer call was made
NotCalled == <<"not called">>

concurrentOthersUnchanged ==
    /\ UNCHANGED <<transcript, index, currentParagraph, sentenceCount, paragraphs,
                   sentences, optimizerCalls, optimizerFailed, rejected, flushLog>>
    /\ UNCHANGED <<mergerVars, fetcherVars, cleanerVars, view, translations, attempts>>

\* each invocation has its own transcript parameter and its own locals; the
\* plugin settings are the one object both read
InitConcurrent ==
    LET
        \* "Hello." at 1000 ms and " world " at 2000 ms
        PairItems ==
            { [text |-> <<"Hello", ".">>, timestamp |-> 1000],
              [text |-> <<Space, "world", Space>>, timestamp |-> 2000] }
    IN
    /\ \E t1, t2 \in SeqsUpTo(PairItems, MaxItems) :
          /\ t1 # t2
          /\ calls = [i \in Invocations |->
                        [transcript |-> IF i = 1 THEN t1 ELSE t2,
                         pc |-> "call",
                         outcome |-> NotCalled,
                         paragraphs |-> <<>>]]
    /\ \E s \in SettingsChoices, ai \in BOOLEAN :
          settings = [minSentences |-> s.minSentences,
                      maxSentences |-> s.maxSentences, useAI |-> ai]
    /\ pc = "concurrent"
    /\ variant = "async"
    /\ transcript = <<>>
    /\ index = 0
    /\ currentParagraph = emptyParagraph
    /\ sentenceCount = 0
    /\ paragraphs = <<>>
    /\ sentences = <<>>
    /\ optimizerCalls = 0
    /\ optimizerFailed = FALSE
    /\ rejected = FALSE
    /\ flushLog = <<>>
    /\ mergerIdle
    /\ fetcherIdle
    /\ cleanerIdle
    /\ view = <<>>
    /\ translations = <<>>
    /\ attempts = <<>>

\* combineIntoParagraphs up to its first await: with the optimizer it
\* suspends at optimizeText, without it createParagraphsDirectly runs to its
\* return in the same turn
combineIntoParagraphsCall(i) ==
    /\ calls[i].pc = "call"
    /\ calls' = [calls EXCEPT ![i] =
                    IF settings.useAI
                    THEN [@ EXCEPT !.pc = "awaitOptimizer"]
                    ELSE [@ EXCEPT !.pc = "done",
                                   !.paragraphs =
                                       createParagraphsDirectly(calls[i].transcript,
                                                                settings)]]
    /\ UNCHANGED <<settings, pc, variant>>
    /\ concurrentOthersUnchanged

\* a continuation that reads the transcript of the other invocation
optimizeTextResolvesCall_OtherTranscript(i) ==
    /\ calls[i].pc = "awaitOptimizer"
    /\ \E optimizedText \in OptimizerResponses(calls[i].transcript) :
          calls' = [calls EXCEPT ![i] =
                       [@ EXCEPT !.pc = "done",
                                 !.outcome = optimizedText,
                                 !.paragraphs =
                                     createParagraphsFromSentences(
                                         SplitSentences(optimizedText),
                                         calls[3 - i].transcript, settings)]]
    /\ UNCHANGED <<settings, pc, variant>>
    /\ concurrentOthersUnchanged

\* the continuation after await optimizeText: split and
\* createParagraphsFromSentences, which runs to its return in the same turn
optimizeTextResolvesCall(i) ==
    /\ calls[i].pc = "awaitOptimizer"
    /\ \E optimizedText \in OptimizerResponses(calls[i].transcript) :
          calls' = [calls EXCEPT ![i] =
                       [@ EXCEPT !.pc = "done",
                                 !.outcome = optimizedText,
                                 !.paragraphs =
                                     createParagraphsFromSentences(
                                         SplitSentences(optimizedText),
                                         calls[i].transcript, settings)]]
    /\ UNCHANGED <<settings, pc, variant>>
    /\ concurrentOthersUnchanged

\* the catch branch after await optimizeText
optimizeTextRejectsCall(i) ==
    /\ calls[i].pc = "awaitOptimizer"
    /\ calls' = [calls EXCEPT ![i] =
                    [@ EXCEPT !.pc = "done",
                              !.outcome = Rejected,
                              !.paragraphs =
                                  createParagraphsDirectly(calls[i].transcript,
                                                           settings)]]
    /\ UNCHANGED <<settings, pc, variant>>
    /\ concurrentOthersUnchanged

NextConcurrent ==
    \E i \in Invocations :
        \/ combineIntoParagraphsCall(i)
        \/ optimizeTextResolvesCall(i)
        \/ optimizeTextRejectsCall(i)

SpecConcurrent == InitConcurrent /\ [][NextConcurrent]_vars

\* what one invocation returns when it runs alone
RunAlone(items, outcome, cfg) ==
    IF outcome \in {NotCalled, Rejected}
    THEN createParagraphsDirectly(items, cfg)
    ELSE createParagraphsFromSentences(SplitSentences(outcome), items, cfg)

----------------------------------------------------------------------------
(* mergeShortSubtitles: the fragments of the input *)

\* C20: after mergeShortSubtitles has returned, every fragment object of
\* the input sequence has the text, offset and duration it had before the
\* call
C20_InputUnchanged ==
    pc = "done" =>
        \A i \in DOMAIN input :
            /\ lines[i].text = input[i].text
            /\ lines[i].offset = input[i].offset
            /\ lines[i].duration = input[i].duration

----------------------------------------------------------------------------
(* createParagraphsDirectly and the continuation-merge combineIntoParagraphs *)

InitAssemblers == Init \/ InitContinuation

NextAssemblers == Next \/ NextContinuation

SpecAssemblers == InitAssemblers /\ [][NextAssemblers]_vars

----------------------------------------------------------------------------
(* mergeShortSubtitles: the completeness condition and the length limit *)

\* C22: completeness blocks a merge only for an accumulated text that ends
\* in terminal punctuation or starts with a topic-transition word: when the
\* gap/duration and length conditions hold and the accumulated text does
\* neither, the next fragment is merged into it
C22_CompletenessAtEndsOnly ==
    [][(pc = "reduce" /\ acc # <<>> /\ mIndex' = mIndex + 1) =>
          LET last == lines[Last(acc)]
              current == lines[mIndex + 1]
              gap == current.offset - (last.offset + last.duration)
              maxGap == CASE variant = "bilibili" -> MAX_GAP_BILIBILI
                          [] variant = "deepseek" -> MAX_GAP_DEEPSEEK
                          [] OTHER -> MAX_GAP_FETCHER
              maxLength == IF variant = "deepseek" THEN MAX_MERGE_LENGTH_DEEPSEEK
                           ELSE MAX_MERGE_LENGTH
              t == Trim(last.text)
              endsInPunctuation == t # <<>> /\ Last(t) \in SentenceEndChars \cup {"..."}
              startsWithTopicWord == t # <<>> /\ Head(t) \in SemanticUnits
          IN (/\ current.duration < MIN_DURATION \/ gap < maxGap
              /\ StrLen(last.text \o current.text) <= maxLength
              /\ ~endsInPunctuation
              /\ ~startsWithTopicWord) => acc' = acc]_vars

\* C23: every returned fragment that was produced by a merge has a text of
\* at most MAX_MERGE_LENGTH characters
C23_MergedLengthBound ==
    pc = "done" =>
        \A k \in DOMAIN acc :
            lines[acc[k]] # input[acc[k]] =>
                StrLen(lines[acc[k]].text) <=
                    (IF variant = "deepseek" THEN MAX_MERGE_LENGTH_DEEPSEEK
                     ELSE MAX_MERGE_LENGTH)

----------------------------------------------------------------------------
(* combineIntoParagraphs, continuation-merge variant: size of the accumulator *)

\* C24: the accumulator of the continuation-merge combineIntoParagraphs
\* never holds more than 6 texts, and a callback that finds 6 texts of which
\* the last is incomplete merges its item into that last text
C24_SixTexts ==
    /\ [](variant = "continuation" => Len(currentParagraph.texts) <= 6)
    /\ [][(/\ variant = "continuation"
           /\ pc = "forEach"
           /\ index' = index + 1
           /\ Len(currentParagraph.texts) = 6
           /\ continuationIncompleteEndRegex(Last(currentParagraph.texts))) =>
              LET texts == currentParagraph.texts
                  merged == [texts EXCEPT ![6] =
                                normalizeSpaces(texts[6] \o <<Space>> \o
                                    normalizeSpaces(transcript[index + 1].text))]
              IN \/ currentParagraph'.texts = merged
                 \/ /\ currentParagraph'.texts = <<>>
                    /\ Last(flushLog').texts = merged]_vars

\* six texts are accumulated, the last of them is incomplete and already
\* holds the item that followed the sixth
C24_Witness ==
    /\ variant = "continuation"
    /\ pc = "forEach"
    /\ Len(currentParagraph.texts) = 6
    /\ index >= 7
    /\ continuationIncompleteEndRegex(Last(currentParagraph.texts))

----------------------------------------------------------------------------
(* YTranslateSettingTab: the paragraph sliders and the reset button *)

\* maxWords of DEFAULT_SETTINGS
DEFAULT_MAX_WORDS == 100

settingTabOthersUnchanged ==
    /\ UNCHANGED <<transcript, pc, index, currentParagraph, sentenceCount, paragraphs,
                   sentences, optimizerCalls, optimizerFailed, rejected, flushLog,
                   variant>>
    /\ UNCHANGED <<mergerVars, outerVars>>

\* the settings after loadSettings of a fresh installation
InitSettingTab ==
    /\ settings = [minSentences |-> DEFAULT_SETTINGS.minSentences,
                   maxSentences |-> DEFAULT_SETTINGS.maxSentences,
                   maxWords |-> DEFAULT_MAX_WORDS, useAI |-> FALSE]
    /\ pc = "display"
    /\ variant = "settingTab"
    /\ transcript = <<>>
    /\ index = 0
    /\ currentParagraph = emptyParagraph
    /\ sentenceCount = 0
    /\ paragraphs = <<>>
    /\ sentences = <<>>
    /\ optimizerCalls = 0
    /\ optimizerFailed = FALSE
    /\ rejected = FALSE
    /\ flushLog = <<>>
    /\ mergerIdle
    /\ outerIdle

\* a min slider that leaves maxSentences alone
minSentencesOnChange_NoAdjust ==
    /\ \E value \in 1..5 :
          settings' = [settings EXCEPT !.minSentences = value]
    /\ settingTabOthersUnchanged

\* slider.setLimits(1, 5, 1).onChange: minSentences = value;
\* if (value > maxSentences) maxSentences = value; saveSettings()
minSentencesOnChange ==
    /\ \E value \in 1..5 :
          settings' = [settings EXCEPT !.minSentences = value,
                                       !.maxSentences = IF value > @ THEN value ELSE @]
    /\ settingTabOthersUnchanged

\* slider.setLimits(2, 10, 1).onChange: maxSentences = value;
\* if (value < minSentences) minSentences = value; saveSettings()
maxSentencesOnChange ==
    /\ \E value \in 2..10 :
          settings' = [settings EXCEPT !.maxSentences = value,
                                       !.minSentences = IF value < @ THEN value ELSE @]
    /\ settingTabOthersUnchanged

\* slider.setLimits(50, 200, 10).onChange: maxWords = value; saveSettings()
maxWordsOnChange ==
    /\ \E step \in 0..15 :
          settings' = [settings EXCEPT !.maxWords = 50 + 10 * step]
    /\ settingTabOthersUnchanged

\* the reset button: the three paragraph settings back to DEFAULT_SETTINGS
resetOnClick ==
    /\ settings' = [settings EXCEPT !.minSentences = DEFAULT_SETTINGS.minSentences,
                                    !.maxSentences = DEFAULT_SETTINGS.maxSentences,
                                    !.maxWords = DEFAULT_MAX_WORDS]
    /\ settingTabOthersUnchanged

NextSettingTab ==
    \/ minSentencesOnChange
    \/ maxSentencesOnChange
    \/ maxWordsOnChange
    \/ resetOnClick

SpecSettingTab == InitSettingTab /\ [][NextSettingTab]_vars

\* C25: after any sequence of slider changes and resets from the defaults
\* the settings satisfy 1 <= minSentences <= maxSentences <= 10
C25_SentenceLimitsOrdered ==
    variant = "settingTab" =>
        /\ 1 <= settings.minSentences
        /\ settings.minSentences <= settings.maxSentences
        /\ settings.maxSentences <= 10

\* minSentences and maxSentences meet at the lower limit of the max slider
\* or at the upper limit of the min slider, and maxWords was changed
C25_Witness ==
    /\ variant = "settingTab"
    /\ settings.minSentences = settings.maxSentences
    /\ settings.minSentences \in {2, 5}
    /\ settings.maxWords # DEFAULT_MAX_WORDS

----------------------------------------------------------------------------
(* renderTranscriptionBlocks and renderParagraphs *)

\* paragraphs.forEach: each callback appends a transcript-block div to the
\* container and then reads translations[index].original, which throws a
\* TypeError when translations has no element at index
renderParagraphs(paras, trans) ==
    LET complete == IF Len(paras) <= Len(trans) THEN Len(paras) ELSE Len(trans)
    IN [blocks |-> [i \in 1..complete |->
                       [original |-> trans[i].original,
                        translated |-> trans[i].translated]],
        emptyBlocks |-> IF Len(paras) > Len(trans) THEN 1 ELSE 0,
        threw |-> Len(paras) > Len(trans)]

\* the container after renderParagraphs: the version with try/catch adds
\* the transcript-error div, the older version lets the exception reject the
\* promise of renderTranscriptionBlocks
Rendered(paras, trans, v) ==
    LET r == renderParagraphs(paras, trans)
    IN [blocks |-> r.blocks,
        emptyBlocks |-> r.emptyBlocks,
        errorDiv |-> r.threw /\ v = "try",
        unhandled |-> r.threw /\ v = "plain",
        translationFailed |-> FALSE]

renderOthersUnchanged ==
    /\ UNCHANGED <<transcript, settings, index, currentParagraph, sentenceCount,
                   sentences, optimizerCalls, optimizerFailed, rejected, flushLog,
                   variant>>
    /\ UNCHANGED <<mergerVars, fetcherVars, cleanerVars, calls, attempts>>

\* data.lines of a fetched transcript; "try" is renderTranscriptionBlocks
\* with the try/catch (transcript-view.ts:838), "plain" the older one (:142)
InitRender ==
    /\ transcript \in Transcripts
    /\ \E enableTranslation \in BOOLEAN :
          settings = [minSentences |-> DEFAULT_SETTINGS.minSentences,
                      maxSentences |-> DEFAULT_SETTINGS.maxSentences,
                      useAI |-> FALSE, enableTranslation |-> enableTranslation]
    /\ variant \in {"try", "plain"}
    /\ pc = "renderTranscriptionBlocks"
    /\ view = [blocks |-> <<>>, emptyBlocks |-> 0, errorDiv |-> FALSE,
               unhandled |-> FALSE, translationFailed |-> FALSE]
    /\ translations = <<>>
    /\ attempts = <<>>
    /\ calls = <<>>
    /\ index = 0
    /\ currentParagraph = emptyParagraph
    /\ sentenceCount = 0
    /\ paragraphs = <<>>
    /\ sentences = <<>>
    /\ optimizerCalls = 0
    /\ optimizerFailed = FALSE
    /\ rejected = FALSE
    /\ flushLog = <<>>
    /\ mergerIdle
    /\ fetcherIdle
    /\ cleanerIdle

\* dataContainerEl.empty(); paragraphs = combineIntoParagraphs(...);
\* let translations = []; if (enableTranslation) translations = await
\* getTranslations(paragraphs); otherwise renderParagraphs follows at once
renderTranscriptionBlocks ==
    /\ pc = "renderTranscriptionBlocks"
    /\ LET RECURSIVE ContinuationScan(_, _)
           ContinuationScan(st, i) ==
               IF i > Len(transcript) THEN st
               ELSE ContinuationScan(
                        ContinuationStep(st, transcript[i], i = Len(transcript)), i + 1)
           scanned == ContinuationScan(newScan, 1)
           combined ==
               IF variant = "try" THEN createParagraphsDirectly(transcript, settings)
               ELSE IF scanned.cur.texts # <<>>
               THEN Append(scanned.paragraphs,
                           MakeParagraph(scanned.cur,
                                         normalizeSpaces(JoinSpace(scanned.cur.texts))))
               ELSE scanned.paragraphs
       IN /\ paragraphs' = combined
          /\ IF settings.enableTranslation
             THEN /\ pc' = "getTranslations"
                  /\ view' = [view EXCEPT !.blocks = <<>>]
             ELSE /\ pc' = "done"
                  /\ view' = Rendered(combined, <<>>, variant)
    /\ UNCHANGED translations
    /\ renderOthersUnchanged

\* getTranslations resolves with one {original, translated} per paragraph
\* (a translation, the failure text of fallbackTranslation, or an empty
\* string); renderParagraphs follows
getTranslationsResolves ==
    /\ pc = "getTranslations"
    /\ \E translated \in {<<"translated">>, <<"translation failed">>, <<>>} :
          /\ translations' = [i \in DOMAIN paragraphs |->
                                 [original |-> JoinSpace(paragraphs[i].text),
                                  translated |-> translated]]
          /\ view' = Rendered(paragraphs, translations', variant)
    /\ pc' = "done"
    /\ UNCHANGED paragraphs
    /\ renderOthersUnchanged

\* getTranslations rejects (a translate call without a catch failed)
getTranslationsRejects ==
    /\ pc = "getTranslations"
    /\ paragraphs # <<>>
    /\ view' = [view EXCEPT !.errorDiv = variant = "try",
                            !.unhandled = variant = "plain",
                            !.translationFailed = TRUE]
    /\ pc' = "done"
    /\ UNCHANGED <<paragraphs, translations>>
    /\ renderOthersUnchanged

NextRender ==
    \/ renderTranscriptionBlocks
    \/ getTranslationsResolves
    \/ getTranslationsRejects

SpecRender == InitRender /\ [][NextRender]_vars

\* C26: when no translation request fails, renderTranscriptionBlocks ends
\* with one complete transcript block per paragraph and without the error
\* state, with enableTranslation on and with enableTranslation off
C26_OneBlockPerParagraph ==
    (pc = "done" /\ variant \in {"try", "plain"} /\ ~view.translationFailed) =>
        /\ Len(view.blocks) = Len(paragraphs)
        /\ view.emptyBlocks = 0
        /\ ~view.errorDiv
        /\ ~view.unhandled

----------------------------------------------------------------------------
(* getTranslations, DeepSeek branch, and fallbackTranslation: the map
   callback of one paragraph *)

\* "translation failed: no translation service can be used", the text
\* fallbackTranslation returns from its catch
AllServicesFailed == <<"translation failed", ":", Space, "all services">>

translateOthersUnchanged ==
    /\ UNCHANGED <<transcript, settings, index, currentParagraph, sentenceCount,
                   paragraphs, sentences, optimizerCalls, optimizerFailed, rejected,
                   flushLog, variant>>
    /\ UNCHANGED <<mergerVars, fetcherVars, cleanerVars, calls, view>>

\* the paragraphs of a transcript and the index of the one whose callback is
\* followed; useDeepseek is on with a key, useAI is useAITranslation with a
\* kimiApiKey
InitFallback ==
    /\ transcript \in Transcripts
    /\ settings = [minSentences |-> DEFAULT_SETTINGS.minSentences,
                   maxSentences |-> DEFAULT_SETTINGS.maxSentences, useAI |-> FALSE]
       \/ settings = [minSentences |-> DEFAULT_SETTINGS.minSentences,
                      maxSentences |-> DEFAULT_SETTINGS.maxSentences, useAI |-> TRUE]
    /\ paragraphs = createParagraphsDirectly(transcript, settings)
    /\ index \in DOMAIN paragraphs
    /\ pc = "getTranslations"
    /\ variant = "deepseek"
    /\ translations = <<>>
    /\ attempts = <<>>
    /\ view = <<>>
    /\ calls = <<>>
    /\ currentParagraph = emptyParagraph
    /\ sentenceCount = 0
    /\ sentences = <<>>
    /\ optimizerCalls = 0
    /\ optimizerFailed = FALSE
    /\ rejected = FALSE
    /\ flushLog = <<>>
    /\ mergerIdle
    /\ fetcherIdle
    /\ cleanerIdle

\* paragraphs.map(async para => { ... await deepseekTranslator.translate(...)
getTranslations ==
    /\ pc = "getTranslations"
    /\ pc' = "deepseek"
    /\ UNCHANGED <<translations, attempts>>
    /\ translateOthersUnchanged

\* the awaited translate call of DeepSeek, Kimi or Google resolves:
\* return {original: originalText, translated: translation}
translateResolves ==
    /\ pc \in {"deepseek", "kimi", "google"}
    /\ LET originalText == JoinSpace(paragraphs[index].text)
           translation == <<pc, ":">> \o originalText
       IN /\ attempts' = Append(attempts, [service |-> pc, ok |-> TRUE,
                                           translation |-> translation])
          /\ translations' = <<[original |-> originalText, translated |-> translation]>>
    /\ pc' = "done"
    /\ translateOthersUnchanged

\* the awaited translate call rejects.  DeepSeek: the catch of the callback
\* returns fallbackTranslation(para), which awaits Kimi when useAITranslation
\* and kimiApiKey are set and Google otherwise.  Kimi or Google: the catch of
\* fallbackTranslation returns the failure text
translateRejects ==
    /\ pc \in {"deepseek", "kimi", "google"}
    /\ attempts' = Append(attempts, [service |-> pc, ok |-> FALSE, translation |-> <<>>])
    /\ IF pc = "deepseek"
       THEN /\ pc' = IF settings.useAI THEN "kimi" ELSE "google"
            /\ UNCHANGED translations
       ELSE /\ pc' = "done"
            /\ translations' = <<[original |-> JoinSpace(paragraphs[index].text),
                                  translated |-> AllServicesFailed]>>
    /\ translateOthersUnchanged

NextFallback ==
    \/ getTranslations
    \/ translateResolves
    \/ translateRejects

SpecFallback == InitFallback /\ [][NextFallback]_vars

\* C27: the services are attempted in the order DeepSeek, Kimi (when it is
\* enabled with a key), Google; the result is the failure text only after
\* all of them were attempted and failed, and otherwise the translation of
\* the first one that succeeded
C27_FailureAfterAllServices ==
    (pc = "done" /\ variant = "deepseek") =>
        LET order == IF settings.useAI THEN <<"deepseek", "kimi", "google">>
                     ELSE <<"deepseek", "google">>
            n == Len(attempts)
        IN /\ n \in 1..Len(order)
           /\ \A i \in 1..n : attempts[i].service = order[i]
           /\ \A i \in 1..(n - 1) : ~attempts[i].ok
           /\ IF translations[1].translated = AllServicesFailed
              THEN n = Len(order) /\ ~attempts[n].ok
              ELSE attempts[n].ok /\ translations[1].translated = attempts[n].translation

----------------------------------------------------------------------------
(* GoogleTranslationService.translate: the retry loop *)

MAX_RETRIES == 3

RETRY_DELAY == 1000

\* the message of the rethrown error when the caught one has none
ServiceError == <<"translation service error">>

\* the message of the throw after the loop
ServiceUnavailable == <<"translation service unavailable">>

\* what one request can end in: fetch rejects, the status is not ok, the
\* body has no data[0], or data[0] holds the translated segments (an empty
\* segment is dropped by the filter)
Responses ==
    [kind : {"fetch failed"}, status : {0}, data : {<<>>}]
        \cup [kind : {"http"}, status : {429, 500}, data : {<<>>}]
        \cup [kind : {"no data"}, status : {200}, data : {<<>>}]
        \cup [kind : {"data"}, status : {200},
              data : {<<"cjkA">>, <<"cjkA", "", "cjkBut">>}]

\* the error thrown inside the try block for a response, <<>> for none
ErrorOf(response) ==
    CASE response.kind = "fetch failed" -> <<"Failed to fetch">>
      [] response.kind = "http" -> <<"HTTP error! status: ", response.status>>
      [] response.kind = "no data" -> <<"invalid response format">>
      [] OTHER -> <<>>

\* data[0].filter(item => item && item[0]).map(item => item[0]).join('')
TranslatedText(data) == SelectSeq(data, LAMBDA segment : segment # "")

\* an entry of the history of the call
RequestEvent(response) ==
    [kind |-> "request", ok |-> ErrorOf(response) = <<>>,
     message |-> ErrorOf(response), ms |-> 0,
     translation |-> TranslatedText(response.data)]

DelayEvent ==
    [kind |-> "delay", ok |-> TRUE, message |-> <<>>, ms |-> RETRY_DELAY,
     translation |-> <<>>]

googleOthersUnchanged ==
    /\ UNCHANGED <<transcript, settings, index, currentParagraph, sentenceCount,
                   paragraphs, sentences, optimizerCalls, optimizerFailed, rejected,
                   flushLog, variant>>
    /\ UNCHANGED <<mergerVars, fetcherVars, cleanerVars, view, translations>>

\* a call translate(text, targetLang) without onProgress, as every caller
\* makes it; calls holds its arguments and locals
InitGoogle ==
    /\ \E text \in {<<"Hello", ".">>, <<"Hello", Space, "world", ".">>},
          targetLang \in {"zh-CN", "en"} :
          calls = [text |-> text, targetLang |-> targetLang, retries |-> 0,
                   result |-> <<>>, error |-> <<>>]
    /\ pc = "while"
    /\ variant = "google"
    /\ attempts = <<>>
    /\ translations = <<>>
    /\ view = <<>>
    /\ transcript = <<>>
    /\ settings = [minSentences |-> DEFAULT_SETTINGS.minSentences,
                   maxSentences |-> DEFAULT_SETTINGS.maxSentences, useAI |-> FALSE]
    /\ index = 0
    /\ currentParagraph = emptyParagraph
    /\ sentenceCount = 0
    /\ paragraphs = <<>>
    /\ sentences = <<>>
    /\ optimizerCalls = 0
    /\ optimizerFailed = FALSE
    /\ rejected = FALSE
    /\ flushLog = <<>>
    /\ mergerIdle
    /\ fetcherIdle
    /\ cleanerIdle

\* while (retries < MAX_RETRIES): the fetch is issued, or the loop is left
\* for the throw after it
whileTest ==
    /\ pc = "while"
    /\ pc' = IF calls.retries < MAX_RETRIES THEN "request" ELSE "unavailable"
    /\ calls' = IF calls.retries < MAX_RETRIES THEN calls
                ELSE [calls EXCEPT !.error = ServiceUnavailable]
    /\ UNCHANGED attempts
    /\ googleOthersUnchanged

\* the request ends with data[0]: return translatedText
requestSucceeds ==
    /\ pc = "request"
    /\ \E response \in Responses :
          /\ ErrorOf(response) = <<>>
          /\ attempts' = Append(attempts, RequestEvent(response))
          /\ calls' = [calls EXCEPT !.result = TranslatedText(response.data)]
    /\ pc' = "returned"
    /\ googleOthersUnchanged

\* a catch block without the test of the retry count
requestFails_NoLimit ==
    /\ pc = "request"
    /\ \E response \in Responses :
          /\ ErrorOf(response) # <<>>
          /\ calls' = [calls EXCEPT !.retries = @ + 1]
          /\ attempts' = Append(Append(attempts, RequestEvent(response)), DelayEvent)
          /\ pc' = "delay"
    /\ googleOthersUnchanged

\* the request ends in an error: the catch block counts it and either
\* rethrows or starts the timer
requestFails ==
    /\ pc = "request"
    /\ \E response \in Responses :
          /\ ErrorOf(response) # <<>>
          /\ IF calls.retries + 1 = MAX_RETRIES
             THEN /\ calls' = [calls EXCEPT
                                  !.retries = @ + 1,
                                  !.error = IF ErrorOf(response) # <<>>
                                            THEN ErrorOf(response) ELSE ServiceError]
                  /\ attempts' = Append(attempts, RequestEvent(response))
                  /\ pc' = "thrown"
             ELSE /\ calls' = [calls EXCEPT !.retries = @ + 1]
                  /\ attempts' = Append(Append(attempts, RequestEvent(response)),
                                        DelayEvent)
                  /\ pc' = "delay"
    /\ googleOthersUnchanged

\* the timer of RETRY_DELAY fires: back to the loop test
delayElapses ==
    /\ pc = "delay"
    /\ pc' = "while"
    /\ UNCHANGED <<calls, attempts>>
    /\ googleOthersUnchanged

NextGoogle ==
    \/ whileTest
    \/ requestSucceeds
    \/ requestFails
    \/ delayElapses

SpecGoogle == InitGoogle /\ [][NextGoogle]_vars

\* every awaited request settles and every timer fires
SpecGoogleFair == SpecGoogle /\ WF_vars(NextGoogle)

\* the request events of a history
RequestsOf(events) == SelectSeq(events, LAMBDA ev : ev.kind = "request")

\* C28: a call makes at most MAX_RETRIES requests; a successful request is
\* the last event and its text is returned; a delay of RETRY_DELAY follows a
\* failed request and is followed by the next request; the call rejects
\* only after exactly MAX_RETRIES failed requests, with the message of the
\* last one; the throw after the loop is never reached; and the call ends
C28_BoundedRetry ==
    /\ [](variant = "google" =>
            LET requests == RequestsOf(attempts)
                n == Len(attempts)
            IN /\ Len(requests) <= MAX_RETRIES
               /\ \A i \in 1..n :
                     (attempts[i].kind = "request" /\ attempts[i].ok) =>
                         /\ i = n
                         /\ pc = "returned"
               /\ pc = "returned" =>
                     /\ n >= 1
                     /\ attempts[n].kind = "request" /\ attempts[n].ok
                     /\ calls.result = attempts[n].translation
               /\ \A i \in 1..n :
                     attempts[i].kind = "delay" =>
                         /\ attempts[i].ms = RETRY_DELAY
                         /\ i > 1
                         /\ attempts[i - 1].kind = "request" /\ ~attempts[i - 1].ok
                         /\ IF i < n THEN attempts[i + 1].kind = "request"
                            ELSE pc \in {"delay", "while", "request"}
               /\ pc = "thrown" =>
                     /\ Len(requests) = MAX_RETRIES
                     /\ \A i \in 1..MAX_RETRIES : ~requests[i].ok
                     /\ attempts[n] = requests[MAX_RETRIES]
                     /\ calls.error = requests[MAX_RETRIES].message
               /\ pc # "unavailable")
    /\ <>(pc \in {"returned", "thrown"})

\* three requests failed with two delays between them, and the call rejected
\* with the message of the third, which is not that of the first
C28_Witness ==
    /\ variant = "google"
    /\ pc = "thrown"
    /\ Len(attempts) = 5
    /\ attempts[2] = DelayEvent /\ attempts[4] = DelayEvent
    /\ ~attempts[1].ok /\ ~attempts[3].ok /\ ~attempts[5].ok
    /\ attempts[5].message # attempts[1].message
    /\ calls.error = attempts[5].message

----------------------------------------------------------------------------
(* setEphemeralState with the isDataLoaded guard: two calls on one view *)

ephemeralOthersUnchanged ==
    /\ UNCHANGED <<transcript, settings, index, currentParagraph, sentenceCount,
                   paragraphs, sentences, optimizerCalls, optimizerFailed, rejected,
                   flushLog, variant, pc>>
    /\ UNCHANGED <<mergerVars, fetcherVars, cleanerVars, translations, attempts>>

\* a view after its constructor (isDataLoaded = false) on which openView
\* calls setEphemeralState twice; leafUrl is plugin.settings.leafUrls at the
\* index of the leaf, the other fields count what was appended to contentEl
InitEphemeral ==
    /\ \E url1, url2 \in {<<"urlA">>, <<"urlB">>} :
          calls = [i \in Invocations |->
                      [state |-> [url |-> IF i = 1 THEN url1 ELSE url2],
                       pc |-> "call", url |-> <<>>, lines |-> 0]]
    /\ view = [isDataLoaded |-> FALSE, leafUrl |-> <<>>, loaders |-> 0,
               fetches |-> 0, titles |-> 0, searchInputs |-> 0,
               transcripts |-> 0, blockRenders |-> 0, errors |-> 0]
    /\ pc = "ephemeral"
    /\ variant = "guarded"
    /\ translations = <<>>
    /\ attempts = <<>>
    /\ transcript = <<>>
    /\ settings = [minSentences |-> DEFAULT_SETTINGS.minSentences,
                   maxSentences |-> DEFAULT_SETTINGS.maxSentences, useAI |-> FALSE]
    /\ index = 0
    /\ currentParagraph = emptyParagraph
    /\ sentenceCount = 0
    /\ paragraphs = <<>>
    /\ sentences = <<>>
    /\ optimizerCalls = 0
    /\ optimizerFailed = FALSE
    /\ rejected = FALSE
    /\ flushLog = <<>>
    /\ mergerIdle
    /\ fetcherIdle
    /\ cleanerIdle

\* if (this.isDataLoaded) return; leafUrls[leafIndex] = state.url;
\* await this.plugin.saveSettings()
setEphemeralStateCall(i) ==
    /\ calls[i].pc = "call"
    /\ IF view.isDataLoaded
       THEN /\ calls' = [calls EXCEPT ![i].pc = "returned"]
            /\ UNCHANGED view
       ELSE /\ calls' = [calls EXCEPT ![i].pc = "awaitSave"]
            /\ view' = [view EXCEPT !.leafUrl = calls[i].state.url]
    /\ ephemeralOthersUnchanged

\* after the save: url = leafUrls[leafIndex], renderLoader,
\* await YoutubeTranscript.fetchTranscript(url, ...)
saveSettingsResolves(i) ==
    /\ calls[i].pc = "awaitSave"
    /\ calls' = [calls EXCEPT ![i].pc = "awaitFetch", ![i].url = view.leafUrl]
    /\ view' = [view EXCEPT !.loaders = @ + 1, !.fetches = @ + 1]
    /\ ephemeralOthersUnchanged

\* the fetch resolves with data: isDataLoaded = true, title and search
\* input are appended; without lines the call ends, with lines it awaits
\* renderTranscript, which has appended its container of blocks
fetchTranscriptResolves(i) ==
    /\ calls[i].pc = "awaitFetch"
    /\ \E n \in 0..1 :
          /\ calls' = [calls EXCEPT ![i].pc = IF n = 0 THEN "returned"
                                              ELSE "awaitRenderTranscript",
                                    ![i].lines = n]
          /\ view' = [view EXCEPT !.isDataLoaded = TRUE,
                                  !.titles = @ + 1,
                                  !.searchInputs = @ + 1,
                                  !.transcripts = @ + n]
    /\ ephemeralOthersUnchanged

\* the fetch rejects or resolves without data: the catch renders the error
fetchTranscriptRejects(i) ==
    /\ calls[i].pc = "awaitFetch"
    /\ calls' = [calls EXCEPT ![i].pc = "returned"]
    /\ view' = [view EXCEPT !.errors = @ + 1]
    /\ ephemeralOthersUnchanged

\* after await renderTranscript: renderTranscriptionBlocks(url, data, ...)
renderTranscriptResolves(i) ==
    /\ calls[i].pc = "awaitRenderTranscript"
    /\ calls' = [calls EXCEPT ![i].pc = "returned"]
    /\ view' = [view EXCEPT !.blockRenders = @ + 1]
    /\ ephemeralOthersUnchanged

NextEphemeral ==
    \E i \in Invocations :
        \/ setEphemeralStateCall(i)
        \/ saveSettingsResolves(i)
        \/ fetchTranscriptResolves(i)
        \/ fetchTranscriptRejects(i)
        \/ renderTranscriptResolves(i)

SpecEphemeral == InitEphemeral /\ [][NextEphemeral]_vars

\* C29: however the setEphemeralState calls on one view interleave, at most
\* one of them fetches, and the title, the search input and the transcript
\* blocks are rendered at most once
C29_RenderedAtMostOnce ==
    variant = "guarded" =>
        /\ view.fetches <= 1
        /\ view.titles <= 1
        /\ view.searchInputs <= 1
        /\ view.transcripts <= 1
        /\ view.blockRenders <= 1

----------------------------------------------------------------------------
(* optimizeSubtitles: the texts it returns *)

\* C30: every line optimizeSubtitles returns has a non-empty text
C30_NoEmptyText ==
    (pc = "resolved" /\ ~config.useAI) =>
        \A i \in DOMAIN result : result[i].text # <<>>

====
